---- MODULE Spec2Model ----
(***************************************************************************)
(* Keyword clustering and opportunity-scoring engine of                    *)
(* keyword-research-tool-mcp.  The repository holds two implementations of *)
(* the pipeline: the exported functions of utils (src/unnamed/part_000)    *)
(* driven by analyzeWebsite (src/unnamed/part_001), and the methods of the *)
(* class KeywordResearchTool (src/src/index.ts).  Both are modelled; the   *)
(* definitions of the class carry the prefix KRT_.                         *)
(*                                                                         *)
(* Strings are TLA+ strings handled character by character with SubSeq.    *)
(* Numbers are JavaScript values: exact rationals n/d, NaN, undefined, or  *)
(* a string (a competition label that arrives where a number is expected). *)
(***************************************************************************)
EXTENDS Integers, Sequences, FiniteSets, TLC

(***************************************************************************)
(* Strings                                                                 *)
(***************************************************************************)
UpperAlpha == "ABCDEFGHIJKLMNOPQRSTUVWXYZ"
LowerAlpha == "abcdefghijklmnopqrstuvwxyz"

CharAt(s, i) == SubSeq(s, i, i)

ToLowerChar(c) ==
    IF \E i \in 1..26 : CharAt(UpperAlpha, i) = c
    THEN CharAt(LowerAlpha, CHOOSE i \in 1..26 : CharAt(UpperAlpha, i) = c)
    ELSE c

ToUpperChar(c) ==
    IF \E i \in 1..26 : CharAt(LowerAlpha, i) = c
    THEN CharAt(UpperAlpha, CHOOSE i \in 1..26 : CharAt(LowerAlpha, i) = c)
    ELSE c

RECURSIVE toLowerCase(_)
toLowerCase(s) ==
    IF s = "" THEN ""
    ELSE ToLowerChar(CharAt(s, 1)) \o toLowerCase(SubSeq(s, 2, Len(s)))

RECURSIVE toUpperCase(_)
toUpperCase(s) ==
    IF s = "" THEN ""
    ELSE ToUpperChar(CharAt(s, 1)) \o toUpperCase(SubSeq(s, 2, Len(s)))

\* 1-based index of the first occurrence of p in s, 0 when there is none
indexOf(s, p) ==
    LET hits == {i \in 1..(Len(s) - Len(p) + 1) : SubSeq(s, i, i + Len(p) - 1) = p}
    IN  IF hits = {} THEN 0 ELSE CHOOSE i \in hits : \A j \in hits : i <= j

includes(s, p) == indexOf(s, p) > 0

startsWith(s, p) == Len(p) <= Len(s) /\ SubSeq(s, 1, Len(p)) = p

\* String.prototype.split with a one-character separator
RECURSIVE split(_, _)
split(s, sep) ==
    LET i == indexOf(s, sep)
    IN  IF i = 0 THEN <<s>>
        ELSE <<SubSeq(s, 1, i - 1)>> \o split(SubSeq(s, i + 1, Len(s)), sep)

\* String.prototype.replace with a string pattern: the first occurrence only
replace(s, p, r) ==
    LET i == indexOf(s, p)
    IN  IF i = 0 THEN s
        ELSE SubSeq(s, 1, i - 1) \o r \o SubSeq(s, i + Len(p), Len(s))

SeqToSet(q) == {q[i] : i \in 1..Len(q)}

SeqIncludes(q, x) == \E i \in 1..Len(q) : q[i] = x

\* Array.prototype.filter for a predicate given as a set of accepted indexes
RECURSIVE FilterIdx(_, _, _)
FilterIdx(q, keep, i) ==
    IF i > Len(q) THEN <<>>
    ELSE (IF i \in keep THEN <<q[i]>> ELSE <<>>) \o FilterIdx(q, keep, i + 1)

\* [...new Set(q)]: first occurrences, in order
RECURSIVE Dedup(_)
Dedup(q) ==
    IF q = <<>> THEN <<>>
    ELSE LET front == Dedup(SubSeq(q, 1, Len(q) - 1))
             x == q[Len(q)]
         IN  IF SeqIncludes(front, x) THEN front ELSE Append(front, x)

\* Array.prototype.slice(0, n)
slice0(q, n) == SubSeq(q, 1, IF Len(q) < n THEN Len(q) ELSE n)

(***************************************************************************)
(* JavaScript values                                                       *)
(***************************************************************************)
Abs(x) == IF x < 0 THEN -x ELSE x

RECURSIVE GCD(_, _)
GCD(a, b) == IF b = 0 THEN a ELSE GCD(b, a % b)

\* the rational n/d (d > 0) in lowest terms
Rat(n, d) ==
    LET g == GCD(Abs(n), d)
    IN  [t |-> "num", n |-> n \div g, d |-> d \div g, s |-> ""]

N(n) == [t |-> "num", n |-> n, d |-> 1, s |-> ""]
NaN == [t |-> "nan", n |-> 0, d |-> 1, s |-> ""]
Undefined == [t |-> "undef", n |-> 0, d |-> 1, s |-> ""]
Str(x) == [t |-> "str", n |-> 0, d |-> 1, s |-> x]

typeof(v) ==
    CASE v.t = "num" -> "number"
      [] v.t = "nan" -> "number"
      [] v.t = "str" -> "string"
      [] OTHER -> "undefined"

\* ToNumber: undefined and a non-numeric string give NaN, "" gives 0
ToNumber(v) ==
    CASE v.t = "num" -> v
      [] v.t = "str" -> IF v.s = "" THEN N(0) ELSE NaN
      [] OTHER -> NaN

isNaN(v) == ToNumber(v).t = "nan"

Truthy(v) ==
    CASE v.t = "num" -> v.n # 0
      [] v.t = "str" -> v.s # ""
      [] OTHER -> FALSE

\* a || b
JsOr(a, b) == IF Truthy(a) THEN a ELSE b

\* a > b: false as soon as an operand is NaN
JsGt(a, b) ==
    LET x == ToNumber(a)
        y == ToNumber(b)
    IN  x.t = "num" /\ y.t = "num" /\ x.n * y.d > y.n * x.d

JsLt(a, b) == JsGt(b, a)

JsGe(a, b) ==
    LET x == ToNumber(a)
        y == ToNumber(b)
    IN  x.t = "num" /\ y.t = "num" /\ x.n * y.d >= y.n * x.d

JsTimes(a, b) ==
    LET x == ToNumber(a)
        y == ToNumber(b)
    IN  IF x.t = "num" /\ y.t = "num" THEN Rat(x.n * y.n, x.d * y.d) ELSE NaN

JsDiv(a, b) ==
    LET x == ToNumber(a)
        y == ToNumber(b)
    IN  IF x.t = "num" /\ y.t = "num" /\ y.n # 0
        THEN (IF y.n > 0 THEN Rat(x.n * y.d, x.d * y.n) ELSE Rat(-(x.n * y.d), x.d * (-y.n)))
        ELSE NaN   \* 0/0 is NaN; x/0 with x # 0 is an infinity, which no caller produces

JsMinus(a, b) ==
    LET x == ToNumber(a)
        y == ToNumber(b)
    IN  IF x.t = "num" /\ y.t = "num" THEN Rat(x.n * y.d - y.n * x.d, x.d * y.d) ELSE NaN

RECURSIVE NatToString(_)
NatToString(k) ==
    IF k < 10 THEN CharAt("0123456789", k + 1)
    ELSE NatToString(k \div 10) \o CharAt("0123456789", (k % 10) + 1)

\* String(v) for the values that meet a string operand of +: whole numbers,
\* NaN, undefined and strings
JsToString(v) ==
    CASE v.t = "str" -> v.s
      [] v.t = "nan" -> "NaN"
      [] v.t = "undef" -> "undefined"
      [] OTHER -> IF v.n < 0 THEN "-" \o NatToString(-v.n) ELSE NatToString(v.n)

\* a + b: concatenation when an operand is a string, addition otherwise
JsPlus(a, b) ==
    IF a.t = "str" \/ b.t = "str" THEN Str(JsToString(a) \o JsToString(b))
    ELSE LET x == ToNumber(a)
             y == ToNumber(b)
         IN  IF x.t = "num" /\ y.t = "num" THEN Rat(x.n * y.d + y.n * x.d, x.d * y.d) ELSE NaN

MathMax(a, b) ==
    LET x == ToNumber(a)
        y == ToNumber(b)
    IN  IF x.t = "num" /\ y.t = "num" THEN (IF x.n * y.d >= y.n * x.d THEN x ELSE y) ELSE NaN

MathMin(a, b) ==
    LET x == ToNumber(a)
        y == ToNumber(b)
    IN  IF x.t = "num" /\ y.t = "num" THEN (IF x.n * y.d <= y.n * x.d THEN x ELSE y) ELSE NaN

\* Math.round: the nearest integer, halves towards +infinity
MathRound(a) ==
    LET x == ToNumber(a)
    IN  IF x.t = "num" THEN N((2 * x.n + x.d) \div (2 * x.d)) ELSE NaN

(***************************************************************************)
(* Commercial Scorer                                                       *)
(***************************************************************************)
\* utils.calculateCommercialScore: the multiplier of the lowercased keyword
scoreMultiplier(keyword) ==
    IF includes(keyword, "buy") \/ includes(keyword, "purchase") THEN Rat(5, 2)
    ELSE IF includes(keyword, "best") \/ includes(keyword, "review") THEN N(2)
    ELSE IF includes(keyword, "price") \/ includes(keyword, "cost") THEN Rat(9, 5)
    ELSE IF includes(keyword, "how to") THEN Rat(4, 5)
    ELSE N(1)

\* the scorer without the floor of 10
calculateCommercialScore_NoFloor(keywordData) ==
    LET volume == JsOr(keywordData.search_volume, N(100))
        cpc == JsOr(keywordData.cpc, Rat(1, 2))
        competition == JsOr(keywordData.competition, Rat(3, 10))
        keyword == toLowerCase(keywordData.keyword)
        multiplier == scoreMultiplier(keyword)
    IN  MathRound(JsTimes(JsTimes(JsTimes(volume, MathMax(Rat(1, 10), cpc)), multiplier),
                          JsPlus(N(1), competition)))

\* utils.calculateCommercialScore; keywordData is a raw item whose
\* competition analyzeWebsite has already converted
calculateCommercialScore(keywordData) ==
    LET volume == JsOr(keywordData.search_volume, N(100))
        cpc == JsOr(keywordData.cpc, Rat(1, 2))
        competition == JsOr(keywordData.competition, Rat(3, 10))
        keyword == toLowerCase(keywordData.keyword)
        multiplier == scoreMultiplier(keyword)
        calculation ==
            JsTimes(JsTimes(JsTimes(volume, MathMax(Rat(1, 10), cpc)), multiplier),
                    JsPlus(N(1), competition))
    IN  MathMax(N(10), MathRound(calculation))

\* the switch on the uppercased competition level shared by
\* KeywordResearchTool.calculateCommercialScore and convertCompetitionToNumeric
LevelToCompetition(level) ==
    LET up == toUpperCase(level)
    IN  IF up = "HIGH" THEN Rat(4, 5)
        ELSE IF up = "MEDIUM" THEN Rat(1, 2)
        ELSE IF up = "LOW" THEN Rat(1, 5)
        ELSE Rat(3, 10)

KRT_intentMultiplier(keyword) ==
    IF includes(keyword, "buy") \/ includes(keyword, "purchase") \/ includes(keyword, "order")
    THEN Rat(5, 2)
    ELSE IF includes(keyword, "best") \/ includes(keyword, "top") \/ includes(keyword, "review")
    THEN N(2)
    ELSE IF includes(keyword, "price") \/ includes(keyword, "cost") \/ includes(keyword, "cheap")
    THEN Rat(9, 5)
    ELSE IF includes(keyword, "hire") \/ includes(keyword, "service") \/ includes(keyword, "company")
    THEN Rat(8, 5)
    ELSE IF includes(keyword, "how to") \/ includes(keyword, "what is")
    THEN Rat(4, 5)
    ELSE N(1)

KRT_calculateCommercialScore(keywordData) ==
    LET volume == JsOr(keywordData.search_volume, N(0))
        cpc == JsOr(keywordData.cpc, N(0))
        competition0 == JsOr(keywordData.competition, N(0))
        competitionLevel == JsOr(keywordData.competition_level, Str("unknown"))
        competition ==
            IF typeof(competition0) # "number"
            THEN LevelToCompetition(competitionLevel.s)
            ELSE competition0
        keyword == toLowerCase(keywordData.keyword)
        intentMultiplier == KRT_intentMultiplier(keyword)
        validVolume == IF isNaN(volume) THEN N(100) ELSE volume
        validCpc == IF isNaN(cpc) THEN Rat(1, 2) ELSE cpc
        validCompetition == IF isNaN(competition) THEN Rat(3, 10) ELSE competition
        score ==
            MathRound(JsTimes(JsTimes(JsTimes(validVolume, MathMax(Rat(1, 10), validCpc)),
                                      intentMultiplier),
                              JsPlus(N(1), validCompetition)))
    IN  IF isNaN(score) THEN N(100) ELSE MathMax(N(10), score)

\* part_001 convertCompetitionToNumeric
convertCompetitionToNumeric(competition) ==
    IF typeof(competition) = "number" THEN competition
    ELSE IF typeof(competition) = "string" THEN LevelToCompetition(competition.s)
    ELSE Rat(3, 10)

(***************************************************************************)
(* Difficulty Estimator                                                    *)
(***************************************************************************)
\* new URL(url).hostname for the urls of the model: an absolute http(s) url
\* with a non-empty host parses, anything else throws
URLParses(url) ==
    LET low == toLowerCase(url)
    IN  \/ startsWith(low, "http://") /\ Len(split(low, "/")[3]) > 0
        \/ startsWith(low, "https://") /\ Len(split(low, "/")[3]) > 0

URLHostname(url) == split(toLowerCase(url), "/")[3]

\* utils.extractDomain
extractDomain(url) ==
    IF url = "" THEN ""
    ELSE IF URLParses(url) THEN replace(URLHostname(url), "www.", "")
    ELSE LET parts == split(url, "/")
         IN  IF Len(parts) >= 3 THEN replace(parts[3], "www.", "") ELSE ""

KRT_extractDomain(url) ==
    IF url = "" THEN ""
    ELSE IF URLParses(url)
    THEN LET domain == replace(URLHostname(url), "www.", "")
         IN  IF domain # "" /\ domain # "localhost" /\ includes(domain, ".") THEN domain ELSE ""
    ELSE LET parts == split(url, "/")
         IN  IF Len(parts) >= 3
             THEN LET domain == replace(parts[3], "www.", "")
                  IN  IF domain # "" /\ includes(domain, ".") THEN domain ELSE ""
             ELSE ""

highAuthority == <<"wikipedia.org", "amazon.com", "youtube.com", "linkedin.com">>

\* the score of the result at 0-based position index, times its weight
domainContribution(url, index) ==
    LET domain == extractDomain(url)
        weight == Rat(10 - index, 10)
        score == IF \E k \in 1..Len(highAuthority) : includes(domain, highAuthority[k])
                 THEN N(35) ELSE N(15)
    IN  JsTimes(score, weight)

RECURSIVE SumContributions(_, _)
SumContributions(results, k) ==
    IF k = 0 THEN N(0)
    ELSE JsPlus(SumContributions(results, k - 1), domainContribution(results[k].url, k - 1))

\* the page-based estimate without the cap at 100
calculateDifficulty_NoCap(organicResults) ==
    IF Len(organicResults) = 0 THEN N(0)
    ELSE LET top == slice0(organicResults, 10)
         IN  MathRound(SumContributions(top, Len(top)))

\* utils.calculateDifficulty
calculateDifficulty(organicResults) ==
    IF Len(organicResults) = 0 THEN N(0)
    ELSE LET top == slice0(organicResults, 10)
         IN  MathMin(N(100), MathRound(SumContributions(top, Len(top))))

highAuthorityDomains ==
    <<"wikipedia.org", "amazon.com", "youtube.com", "facebook.com", "linkedin.com",
      "reddit.com", "quora.com", "forbes.com", "cnn.com", "bbc.com", "nytimes.com",
      "yelp.com", "trustpilot.com", "glassdoor.com", "indeed.com">>

bigBoxDomains ==
    <<"walmart.com", "target.com", "bestbuy.com", "homedepot.com", "lowes.com",
      "costco.com", "ebay.com", "etsy.com", "shopify.com">>

KRT_domainContribution(url, index) ==
    LET domain == KRT_extractDomain(url)
        positionWeight == Rat(10 - index, 10)
        domainScore ==
            IF \E k \in 1..Len(highAuthorityDomains) : includes(domain, highAuthorityDomains[k])
            THEN N(35)
            ELSE IF \E k \in 1..Len(bigBoxDomains) : includes(domain, bigBoxDomains[k])
            THEN N(30)
            ELSE IF Len(split(domain, ".")) > 2 THEN N(20)
            ELSE IF Len(domain) > 15 THEN N(15)
            ELSE N(10)
    IN  JsTimes(domainScore, positionWeight)

RECURSIVE KRT_SumContributions(_, _)
KRT_SumContributions(results, k) ==
    IF k = 0 THEN N(0)
    ELSE JsPlus(KRT_SumContributions(results, k - 1),
                KRT_domainContribution(results[k].url, k - 1))

KRT_calculateDifficulty(organicResults) ==
    IF Len(organicResults) = 0 THEN N(0)
    ELSE LET top == slice0(organicResults, 10)
         IN  MathMin(N(100), MathRound(KRT_SumContributions(top, Len(top))))

\* utils.estimateDifficultyFromMetrics
estimateDifficultyFromMetrics(data) ==
    LET level == IF data.competition_level.t = "str"
                 THEN toUpperCase(data.competition_level.s) ELSE "undefined"
        base == IF level = "HIGH" THEN 70 ELSE IF level = "MEDIUM" THEN 45 ELSE 25
        volumeBonus == IF JsGt(data.search_volume, N(100000)) THEN 15
                       ELSE IF JsGt(data.search_volume, N(10000)) THEN 10 ELSE 0
        cpcBonus == IF JsGt(data.cpc, N(5)) THEN 10
                    ELSE IF JsGt(data.cpc, N(2)) THEN 5 ELSE 0
    IN  MathMin(N(100), MathMax(N(15), N(base + volumeBonus + cpcBonus)))

KRT_estimateDifficultyFromMetrics(keywordData) ==
    LET search_volume == JsOr(keywordData.search_volume, N(0))
        cpc == JsOr(keywordData.cpc, N(0))
        competition == JsOr(keywordData.competition, N(0))
        competition_level == JsOr(keywordData.competition_level, Str("unknown"))
        level == toUpperCase(competition_level.s)
        base == IF level = "HIGH" THEN N(70)
                ELSE IF level = "MEDIUM" THEN N(45)
                ELSE IF level = "LOW" THEN N(25)
                ELSE MathMax(N(20), JsTimes(competition, N(100)))
        volumeBonus == IF JsGt(search_volume, N(100000)) THEN N(15)
                       ELSE IF JsGt(search_volume, N(10000)) THEN N(10)
                       ELSE IF JsGt(search_volume, N(1000)) THEN N(5) ELSE N(0)
        cpcBonus == IF JsGt(cpc, N(5)) THEN N(10)
                    ELSE IF JsGt(cpc, N(2)) THEN N(5)
                    ELSE IF JsGt(cpc, N(1)) THEN N(3) ELSE N(0)
        difficulty == JsPlus(JsPlus(base, volumeBonus), cpcBonus)
        finalDifficulty == MathMin(N(100), MathMax(N(15), MathRound(difficulty)))
    IN  IF isNaN(finalDifficulty) THEN N(30) ELSE finalDifficulty

(***************************************************************************)
(* Theme Classifier and the lexical helpers of the Cluster Builder         *)
(***************************************************************************)
\* utils.identifyTheme; a label is written without the icon that precedes
\* it in the source
identifyTheme(keyword) ==
    LET kw == toLowerCase(keyword)
    IN  IF includes(kw, "buy") \/ includes(kw, "purchase") THEN "Purchase Intent"
        ELSE IF includes(kw, "best") \/ includes(kw, "review") THEN "Research & Comparison"
        ELSE IF includes(kw, "how to") \/ includes(kw, "guide") THEN "Educational"
        ELSE IF includes(kw, "price") \/ includes(kw, "cost") THEN "Price Research"
        ELSE "General"

KRT_identifyTheme(keyword) ==
    LET kw == toLowerCase(keyword)
    IN  IF includes(kw, "buy") \/ includes(kw, "purchase") THEN "Purchase Intent"
        ELSE IF includes(kw, "best") \/ includes(kw, "top") \/ includes(kw, "review")
        THEN "Research & Comparison"
        ELSE IF includes(kw, "how to") \/ includes(kw, "guide") THEN "Educational"
        ELSE IF includes(kw, "price") \/ includes(kw, "cost") THEN "Price Research"
        ELSE "General"

stopWords ==
    {"the", "a", "an", "and", "or", "but", "in", "on", "at", "to", "for", "of", "with",
     "by", "is", "are", "was", "were", "be", "been", "being", "have", "has", "had", "do",
     "does", "did", "will", "would", "could", "should", "may", "might", "must", "can",
     "best", "top", "how", "what", "when", "where", "why"}

\* the first of the longest words of q: what a stable sort by length
\* descending puts at index 0
FirstLongest(q) ==
    q[CHOOSE i \in 1..Len(q) :
        /\ \A j \in 1..Len(q) : Len(q[j]) <= Len(q[i])
        /\ \A j \in 1..(i - 1) : Len(q[j]) < Len(q[i])]

\* utils.findMainTerm
findMainTerm(keyword) ==
    LET words == split(toLowerCase(keyword), " ")
        contentWords ==
            FilterIdx(words, {i \in 1..Len(words) : words[i] \notin stopWords /\ Len(words[i]) > 2}, 1)
    IN  IF contentWords # <<>> THEN FirstLongest(contentWords) ELSE words[1]

\* utils.calculateKeywordSimilarity: the Jaccard index of the two word sets
calculateKeywordSimilarity(keyword1, keyword2) ==
    LET words1 == SeqToSet(split(toLowerCase(keyword1), " "))
        words2 == SeqToSet(split(toLowerCase(keyword2), " "))
    IN  JsDiv(N(Cardinality(words1 \cap words2)), N(Cardinality(words1 \cup words2)))

\* utils.createClusters: the test that puts otherKeyword into keyword's cluster
isRelated(keyword, otherKeyword) ==
    LET similarity == calculateKeywordSimilarity(keyword, otherKeyword)
        hasMainTerm == includes(toLowerCase(otherKeyword), findMainTerm(keyword))
    IN  JsGt(similarity, Rat(3, 10)) \/ hasMainTerm

\* KeywordResearchTool.createClusters: the word-overlap part of its merge test
KRT_isRelated(keyword, otherKeyword) ==
    LET mainWords == split(toLowerCase(keyword), " ")
        otherWords == split(toLowerCase(otherKeyword), " ")
        commonWords ==
            FilterIdx(mainWords,
                      {i \in 1..Len(mainWords) :
                          SeqIncludes(otherWords, mainWords[i]) /\ Len(mainWords[i]) > 3}, 1)
        shorter == IF Len(mainWords) < Len(otherWords) THEN Len(mainWords) ELSE Len(otherWords)
    IN  JsGe(N(Len(commonWords)), JsTimes(N(shorter), Rat(1, 2)))

(***************************************************************************)
(* Cluster Builder                                                         *)
(***************************************************************************)
RECURSIVE SumOver(_, _)
\* reduce((sum, x) => sum + x, 0) over a sequence of numbers
SumOver(vals, k) == IF k = 0 THEN N(0) ELSE JsPlus(SumOver(vals, k - 1), vals[k])

Sum(vals) == SumOver(vals, Len(vals))

RECURSIVE Flatten(_)
Flatten(qq) == IF qq = <<>> THEN <<>> ELSE Head(qq) \o Flatten(Tail(qq))

\* the domains of a record's ranking pages, empty ones removed
recordDomains(kw) ==
    LET ds == [i \in 1..Len(kw.serp_urls) |-> kw.serp_urls[i].domain]
    IN  FilterIdx(ds, {i \in 1..Len(ds) : ds[i] # ""}, 1)

\* the position of element i after a stable sort of keys in descending order
\* (comparator b - a)
RankDesc(keys, i) ==
    1 + Cardinality({j \in 1..Len(keys) :
                        \/ JsGt(JsMinus(keys[j], keys[i]), N(0))
                        \/ (~JsGt(JsMinus(keys[i], keys[j]), N(0)) /\ j < i)})

SortDescBy(q, keys) ==
    [r \in 1..Len(q) |-> q[CHOOSE i \in 1..Len(q) : RankDesc(keys, i) = r]]

\* a sort that is not stable: equal scores come out in reverse order
sortKeywords_TiesReversed(keywords) ==
    LET rev == [i \in 1..Len(keywords) |-> keywords[Len(keywords) + 1 - i]]
    IN  SortDescBy(rev, [i \in 1..Len(rev) |-> JsOr(rev[i].commercial_score, N(0))])

\* utils.createClusters: keywords.sort by (commercial_score || 0), descending
sortKeywords(keywords) ==
    SortDescBy(keywords, [i \in 1..Len(keywords) |-> JsOr(keywords[i].commercial_score, N(0))])

\* the list left in the order it was given
KRT_sortKeywords_Unsorted(keywords) == keywords

\* KeywordResearchTool.createClusters: keywords.sort by commercial_score, descending
KRT_sortKeywords(keywords) ==
    SortDescBy(keywords, [i \in 1..Len(keywords) |-> keywords[i].commercial_score])

\* utils.createClusters: the inner forEach that collects the related keywords
RECURSIVE collectRelated(_, _, _, _)
collectRelated(keywords, keyword, proc, j) ==
    IF j > Len(keywords) THEN <<>>
    ELSE LET otherKeyword == keywords[j]
             skipped == otherKeyword.keyword \in proc \/ otherKeyword.keyword = keyword.keyword
             pushed == ~skipped /\ isRelated(keyword.keyword, otherKeyword.keyword)
         IN  (IF pushed THEN <<otherKeyword>> ELSE <<>>) \o
             collectRelated(keywords, keyword,
                            IF pushed THEN proc \cup {otherKeyword.keyword} ELSE proc, j + 1)

\* utils.createClusters: the cluster object made of the related keywords
clusterOf(relatedKeywords, keyword, id) ==
    LET n == Len(relatedKeywords)
        totalVolume == Sum([i \in 1..n |-> relatedKeywords[i].search_volume])
        avgCpc == JsDiv(Sum([i \in 1..n |-> relatedKeywords[i].cpc]), N(n))
        avgDifficulty == JsDiv(Sum([i \in 1..n |-> relatedKeywords[i].keyword_difficulty]), N(n))
        totalCommercialScore ==
            Sum([i \in 1..n |-> JsOr(relatedKeywords[i].commercial_score, N(0))])
        uniqueCompetitors == Dedup(Flatten([i \in 1..n |-> recordDomains(relatedKeywords[i])]))
    IN  [cluster_id |-> id,
         main_keyword |-> keyword.keyword,
         theme |-> identifyTheme(keyword.keyword),
         keywords |-> relatedKeywords,
         total_search_volume |-> totalVolume,
         avg_cpc |-> avgCpc,
         avg_difficulty |-> avgDifficulty,
         total_commercial_score |-> totalCommercialScore,
         competitor_domains |-> uniqueCompetitors]

\* utils.createClusters: the cluster built for the seed keyword
buildCluster(keywords, keyword, proc, id) ==
    clusterOf(<<keyword>> \o collectRelated(keywords, keyword, proc, 1), keyword, id)

\* KeywordResearchTool.createClusters: the cluster of the seed alone
KRT_seedCluster(keyword, id) ==
    [cluster_id |-> id,
     main_keyword |-> keyword.keyword,
     theme |-> KRT_identifyTheme(keyword.keyword),
     keywords |-> <<keyword>>,
     total_search_volume |-> JsOr(keyword.search_volume, N(0)),
     avg_cpc |-> IF isNaN(keyword.cpc) THEN Rat(1, 2) ELSE keyword.cpc,
     avg_difficulty |-> IF isNaN(keyword.keyword_difficulty) THEN N(30)
                        ELSE keyword.keyword_difficulty,
     total_commercial_score |-> IF isNaN(keyword.commercial_score) THEN N(100)
                                ELSE keyword.commercial_score,
     competitor_domains |-> Dedup(recordDomains(keyword))]

\* a merge that leaves the cluster's volume at the seed's
KRT_merge_VolumeKept(cluster, otherKeyword) ==
    [cluster EXCEPT
        !.keywords = Append(@, otherKeyword),
        !.total_commercial_score = JsPlus(@, JsOr(otherKeyword.commercial_score, N(0))),
        !.competitor_domains = Dedup(@ \o recordDomains(otherKeyword))]

\* KeywordResearchTool.createClusters: otherKeyword merged into the cluster
KRT_merge(cluster, otherKeyword) ==
    LET currentCpc == IF isNaN(cluster.avg_cpc) THEN N(0) ELSE cluster.avg_cpc
        otherCpc == IF isNaN(otherKeyword.cpc) THEN N(0) ELSE otherKeyword.cpc
        currentDiff == IF isNaN(cluster.avg_difficulty) THEN N(30) ELSE cluster.avg_difficulty
        otherDiff == IF isNaN(otherKeyword.keyword_difficulty) THEN N(30)
                     ELSE otherKeyword.keyword_difficulty
    IN  [cluster EXCEPT
            !.keywords = Append(@, otherKeyword),
            !.total_search_volume = JsPlus(@, JsOr(otherKeyword.search_volume, N(0))),
            !.avg_cpc = JsDiv(JsPlus(currentCpc, otherCpc), N(2)),
            !.avg_difficulty = JsDiv(JsPlus(currentDiff, otherDiff), N(2)),
            !.total_commercial_score = JsPlus(@, JsOr(otherKeyword.commercial_score, N(0))),
            !.competitor_domains = Dedup(@ \o recordDomains(otherKeyword))]

\* KeywordResearchTool.createClusters: the inner forEach
RECURSIVE KRT_mergeLoop(_, _, _, _, _)
KRT_mergeLoop(sortedKeywords, keyword, cluster, proc, j) ==
    IF j > Len(sortedKeywords) THEN cluster
    ELSE LET otherKeyword == sortedKeywords[j]
             skipped == otherKeyword.keyword \in proc \/ otherKeyword.keyword = keyword.keyword
             merged == /\ ~skipped
                       /\ KRT_isRelated(keyword.keyword, otherKeyword.keyword)
                       /\ Len(cluster.keywords) < 10
         IN  KRT_mergeLoop(sortedKeywords, keyword,
                           IF merged THEN KRT_merge(cluster, otherKeyword) ELSE cluster,
                           IF merged THEN proc \cup {otherKeyword.keyword} ELSE proc, j + 1)

KRT_buildCluster(sortedKeywords, keyword, proc, id) ==
    KRT_mergeLoop(sortedKeywords, keyword, KRT_seedCluster(keyword, id), proc, 1)

memberKeywords(cluster) == {cluster.keywords[i].keyword : i \in 1..Len(cluster.keywords)}

\* createClusters: the cluster is pushed and its members are marked processed
pushCluster(st, cluster) ==
    [st EXCEPT !.idx = @ + 1,
               !.processed = @ \cup memberKeywords(cluster),
               !.clusters = Append(@, cluster)]

\* one iteration of the outer forEach of createClusters, on the loop state
\* st = [keywords, processed, clusters, idx]
clusterStep(st, which) ==
    IF st.keywords[st.idx].keyword \in st.processed
    THEN [st EXCEPT !.idx = @ + 1]
    ELSE pushCluster(st, IF which = "utils"
                         THEN buildCluster(st.keywords, st.keywords[st.idx], st.processed,
                                           Len(st.clusters) + 1)
                         ELSE KRT_buildCluster(st.keywords, st.keywords[st.idx], st.processed,
                                               Len(st.clusters) + 1))

\* the clusters left in the order they were formed
sortClusters_Unsorted(clusters) == clusters

\* the value createClusters returns: the clusters by total_commercial_score
\* descending; the class keeps the first 15
sortClusters(clusters) ==
    SortDescBy(clusters, [i \in 1..Len(clusters) |-> clusters[i].total_commercial_score])

KRT_sortClusters(clusters) == slice0(sortClusters(clusters), 15)

RECURSIVE runClusterLoop(_, _)
runClusterLoop(st, which) ==
    IF st.idx > Len(st.keywords) THEN st ELSE runClusterLoop(clusterStep(st, which), which)

\* the state of createClusters before the outer forEach
loopStart(sorted) == [keywords |-> sorted, processed |-> {}, clusters |-> <<>>, idx |-> 1]

\* createClusters as a function of the list it is given: the list as the
\* in-place sort leaves it, and the returned clusters
clustersReturned(st) == [keywords |-> st.keywords, clusters |-> sortClusters(st.clusters)]

createClusters(keywords) ==
    clustersReturned(runClusterLoop(loopStart(sortKeywords(keywords)), "utils"))

KRT_clustersReturned(st) ==
    [keywords |-> st.keywords, clusters |-> KRT_sortClusters(st.clusters)]

KRT_createClusters(keywords) ==
    KRT_clustersReturned(runClusterLoop(loopStart(KRT_sortKeywords(keywords)), "class"))

(***************************************************************************)
(* Opportunity Selector and Report Assembler                               *)
(***************************************************************************)
isQuickWin(c) == JsLt(c.avg_difficulty, N(40)) /\ JsGt(c.total_search_volume, N(50))

isHighValue(c) == JsGt(c.total_commercial_score, N(1000)) /\ JsLt(c.avg_difficulty, N(65))

\* utils.generateReport: the domains of the table in the order Object.entries
\* lists them, each with its count, sorted by count and cut to 10
mainCompetitorsOf(clusters) ==
    LET allCompetitorDomains == Flatten([i \in 1..Len(clusters) |-> clusters[i].competitor_domains])
        domains == Dedup(allCompetitorDomains)
        entries == [k \in 1..Len(domains) |->
                      [domain |-> domains[k],
                       frequency |-> Cardinality({i \in 1..Len(allCompetitorDomains) :
                                                     allCompetitorDomains[i] = domains[k]})]]
    IN  slice0(SortDescBy(entries, [k \in 1..Len(entries) |-> N(entries[k].frequency)]), 10)

\* the plan with the high-value step ahead of the quick-win step
generateActionPlan_HighValueFirst(clusters, quickWins, highValue, competitors) ==
    (IF Len(highValue) > 0
     THEN <<[category |-> "High Value", ref |-> highValue[1].main_keyword]>> ELSE <<>>)
    \o (IF Len(quickWins) > 0
        THEN <<[category |-> "Quick Wins", ref |-> quickWins[1].main_keyword]>> ELSE <<>>)
    \o (IF Len(clusters) > 0
        THEN <<[category |-> "Content", ref |-> clusters[1].theme]>> ELSE <<>>)
    \o (IF Len(competitors) > 0
        THEN <<[category |-> "Competitors", ref |-> competitors[1].domain]>> ELSE <<>>)

\* utils.generateActionPlan: the category of each step and what it refers to
generateActionPlan(clusters, quickWins, highValue, competitors) ==
    (IF Len(quickWins) > 0
     THEN <<[category |-> "Quick Wins", ref |-> quickWins[1].main_keyword]>> ELSE <<>>)
    \o (IF Len(highValue) > 0
        THEN <<[category |-> "High Value", ref |-> highValue[1].main_keyword]>> ELSE <<>>)
    \o (IF Len(clusters) > 0
        THEN <<[category |-> "Content", ref |-> clusters[1].theme]>> ELSE <<>>)
    \o (IF Len(competitors) > 0
        THEN <<[category |-> "Competitors", ref |-> competitors[1].domain]>> ELSE <<>>)

\* utils.generateReport; summaryCards holds the numbers the cards print
generateReport(clusters) ==
    LET n == Len(clusters)
        totalVolume == Sum([i \in 1..n |-> clusters[i].total_search_volume])
        totalKeywords == Sum([i \in 1..n |-> N(Len(clusters[i].keywords))])
        avgDifficulty ==
            IF n > 0 THEN JsDiv(Sum([i \in 1..n |-> clusters[i].avg_difficulty]), N(n)) ELSE N(0)
        qualifyingQuick == FilterIdx(clusters, {i \in 1..n : isQuickWin(clusters[i])}, 1)
        quickWins == slice0(sortClusters(qualifyingQuick), 5)
        qualifyingHigh == FilterIdx(clusters, {i \in 1..n : isHighValue(clusters[i])}, 1)
        highValueTargets == slice0(sortClusters(qualifyingHigh), 5)
        mainCompetitors == mainCompetitorsOf(clusters)
    IN  [summaryCards |-> [totalKeywords |-> totalKeywords,
                           totalVolume |-> totalVolume,
                           avgDifficulty |-> MathRound(avgDifficulty),
                           topCompetitor |-> IF Len(mainCompetitors) > 0
                                             THEN mainCompetitors[1].domain ELSE "N/A"],
         quickWins |-> quickWins,
         highValueTargets |-> highValueTargets,
         topKeywordClusters |-> slice0(clusters, 25),
         mainCompetitors |-> mainCompetitors,
         actionPlan |-> generateActionPlan(clusters, quickWins, highValueTargets, mainCompetitors),
         rawData |-> clusters]

\* KeywordResearchTool.generateReport at clock reading date; no cluster
\* carries ai_competitors, which only researchCompetitors sets
KRT_generateReport(clusters, date) ==
    LET n == Len(clusters)
        totalSearchVolume == Sum([i \in 1..n |-> clusters[i].total_search_volume])
        avgCPC == JsDiv(Sum([i \in 1..n |-> clusters[i].avg_cpc]), N(n))
        estimatedTraffic == MathRound(JsTimes(totalSearchVolume, Rat(3, 10)))
        flat == Dedup(Flatten([i \in 1..n |-> clusters[i].competitor_domains]))
        serpCompetitors == FilterIdx(flat, {i \in 1..Len(flat) : flat[i] # ""}, 1)
        allCompetitors == Dedup(serpCompetitors)
        quick == FilterIdx(clusters,
                           {i \in 1..n : /\ ~isNaN(clusters[i].avg_difficulty)
                                         /\ JsGt(clusters[i].avg_difficulty, N(0))
                                         /\ JsLt(clusters[i].avg_difficulty, N(40))}, 1)
        high == FilterIdx(clusters,
                          {i \in 1..n : /\ ~isNaN(clusters[i].total_commercial_score)
                                        /\ JsGt(clusters[i].total_commercial_score, N(1000))}, 1)
    IN  [analysis_summary |->
            [analysis_date |-> date,
             total_keywords_analyzed |-> Sum([i \in 1..n |-> N(Len(clusters[i].keywords))]),
             clusters_identified |-> n,
             total_monthly_search_volume |-> totalSearchVolume,
             estimated_monthly_traffic_potential |-> estimatedTraffic,
             avg_cpc |-> avgCPC],
         clusters |-> clusters,
         quick_wins |-> slice0(quick, 8),
         high_value |-> slice0(high, 8),
         competitors |-> slice0(allCompetitors, 15)]

(***************************************************************************)
(* Inputs                                                                  *)
(***************************************************************************)
MaxItems == 2      \* raw metric items of the mixed pool in one response
MaxPrefix == 2     \* raw metric items that precede the block of unrelated keywords
MaxFill == 16      \* length of the block of pairwise unrelated keywords
MaxSerp == 2       \* ranking-page tasks in one run
MaxClock == 1      \* clock ticks between two runs
MaxLex == 3        \* raw metric items of the lexical pool in one response
MaxRelated == 1    \* items of the related-keywords response
MaxSeeds == 2      \* seed keywords handed to getSerpData

Item(k, v, c, co, l) ==
    [keyword |-> k, search_volume |-> v, cpc |-> c, competition |-> co, competition_level |-> l]

\* raw metric items that are combined into responses of several items; a
\* response lists the items it holds in this order
MixedItems ==
    <<Item("best running shoes", N(800), N(1), Rat(2, 5), Undefined),
      Item("buy running shoes", N(1000), Rat(6, 5), Rat(1, 2), Undefined),
      Item("buy running shoes", N(500), Undefined, Str("MEDIUM"), Str("medium")),
      Item("hire plumber", N(20000), N(6), Rat(4, 5), Str("HIGH")),
      Item("cheap tv", N(30), Rat(1, 2), Rat(1, 10), Str("LOW")),
      Item("tv stand", N(15), N(3), NaN, Undefined),
      Item("Top Guide", N(0), N(2), Rat(1, 2), Str("HIGH"))>>

MixedPool == SeqToSet(MixedItems)

\* raw metric items whose keywords share words; a response lists the items
\* it holds in this order
LexItems ==
    <<Item("best running shoes", N(800), N(1), Rat(2, 5), Undefined),
      Item("buy running shoes", N(1000), Rat(6, 5), Rat(1, 2), Undefined),
      Item("buy running shoes", N(500), Undefined, Str("MEDIUM"), Str("medium")),
      Item("hire plumber", N(20000), N(6), Rat(4, 5), Str("HIGH")),
      Item("cheap tv", N(30), Rat(1, 2), Rat(1, 10), Str("LOW")),
      Item("Top Guide", N(0), N(2), Rat(1, 2), Str("HIGH")),
      Item("hire contractor now", N(900), N(4), Rat(3, 5), Undefined),
      Item("running shoes", N(600), N(3), Rat(9, 10), Undefined),
      Item("laptop deals", N(700), N(2), Rat(3, 10), Undefined),
      Item("on tv", N(40), N(1), Rat(1, 5), Undefined),
      Item("free ebook", Undefined, N(1), Rat(1, 2), Undefined),
      Item("tv stand", N(-5), N(3), Rat(1, 2), Undefined)>>

LexPool == SeqToSet(LexItems)

\* the position of an item in the list its response is drawn from; 0 for an
\* item that makes a response on its own
PoolIndex(item) ==
    IF item \in MixedPool THEN CHOOSE i \in 1..Len(MixedItems) : MixedItems[i] = item
    ELSE IF item \in LexPool
         THEN Len(MixedItems) + (CHOOSE i \in 1..Len(LexItems) : LexItems[i] = item)
    ELSE 0

\* the items of the related-keywords response
RelatedPool ==
    {Item("running shoes sale", N(300), N(2), Rat(3, 10), Undefined),
     Item("buy running shoes", N(900), N(4), Rat(7, 10), Str("HIGH")),
     Item("shoes outlet", N(50), N(1), Rat(1, 5), Undefined),
     Item("shoe size", N(0), N(1), Rat(1, 5), Undefined)}

\* raw metric items that make a response on their own: every combination of
\* the listed values
WidePool ==
    {Item(k, v, c, co, l) :
        k \in {"order pizza", "How To Cook"},
        v \in {Undefined, NaN, N(0), N(-5), N(1), N(150000)},
        c \in {Undefined, NaN, N(0), N(-1), N(6)},
        co \in {Undefined, NaN, N(-2), Rat(1, 2), N(3), Str("HIGH")},
        l \in {Undefined, Str("high"), Str("other")}}

\* raw metric items that precede the block of unrelated keywords
PrefixPool ==
    {Item("buy running shoes", N(1000), Rat(6, 5), Rat(1, 2), Undefined),
     Item("best running shoes", N(800), N(1), Rat(2, 5), Undefined),
     Item("cheap tv", N(30), Rat(1, 2), Rat(1, 10), Str("LOW"))}

\* the k-th keyword of the block: two letters, no word in common with any
\* other keyword, a volume that grows with every second k
Filler(k) ==
    Item("q" \o CharAt(LowerAlpha, k), N(5000 + 10 * ((k + 1) \div 2)), N(1), N(0), Undefined)

FillerPool == {Filler(k) : k \in 1..MaxFill}

Organic(u) == [type |-> "organic", url |-> u]

DistinctUrls ==
    [k \in 1..11 |-> Organic("https://d" \o CharAt(LowerAlpha, k) \o ".amazon.com/page")]

\* the items of one ranking-page task
SerpPool ==
    {<<>>,
     <<Organic("foo")>>,
     <<Organic("https://www.amazon.com/dp/1"), [type |-> "paid", url |-> "https://ads.example.com/"],
       Organic("https://shop.example.com/a"), Organic("https://WWW.Amazon.com/dp/2")>>,
     DistinctUrls,
     <<DistinctUrls[11], Organic("https://localhost/x"), DistinctUrls[1]>>}

(***************************************************************************)
(* The analysis run                                                        *)
(***************************************************************************)
VARIABLES
    impl,        \* "utils": analyzeWebsite with utils; "class": KeywordResearchTool
    pc,          \* "request", "metrics", "related", "serp", "cluster", "clustered", "done",
                 \* "done2"
    budget,      \* raw metric items the response may still hold
    fill,        \* keywords of the block ingested so far
    cursor,      \* position in MixedItems of the last item taken from it
    served,      \* index in keywordDB of the keyword of the last task, and
    serpCount,   \* the number of tasks processed
    related,     \* related-keyword items processed so far
    taskItems,   \* the items of the ranking-page task processed last
    toRequest,   \* getSerpData: the keywords the loop has still to go through
    requested,   \* getSerpData: the keywords requested so far, in order
    serpResults, \* getSerpData: the tasks collected
    taskIdx,     \* serpResults.forEach: the number of collected tasks gone through
    keywordDB,   \* the Map keyword -> KeywordData, in insertion order
    input,       \* the list handed to createClusters, as it was handed over
    keywords,    \* the same list object, which createClusters sorts in place
    processed,   \* createClusters: the set of processed keywords
    clusters,    \* createClusters: the clusters pushed so far
    idx,         \* createClusters: position of the outer forEach
    returned,    \* the list createClusters returned
    report,      \* the report of the run
    now,         \* the clock
    secondInput, \* the list handed to a second run of createClusters, and
    secondReport \* the report generateReport makes of that run

\* the state of the collection of ranking pages
serpVars == <<toRequest, requested, serpResults, taskIdx>>

vars == <<impl, pc, budget, fill, cursor, served, serpCount, related, taskItems, serpVars,
          keywordDB, input, keywords, processed, clusters, idx, returned, report, now,
          secondInput, secondReport>>

NoReport == [none |-> TRUE]

\* Map.has and Map.set on the insertion-ordered table
MapHas(db, k) == \E i \in 1..Len(db) : db[i].keyword = k

MapSet(db, entry) ==
    IF MapHas(db, entry.keyword)
    THEN [i \in 1..Len(db) |-> IF db[i].keyword = entry.keyword THEN entry ELSE db[i]]
    ELSE Append(db, entry)

\* analyzeWebsite: the record stored for a raw metric item
keywordEntry(item) ==
    LET numericCompetition == convertCompetitionToNumeric(item.competition)
        itemWithNumericCompetition == [item EXCEPT !.competition = numericCompetition]
    IN  [keyword |-> item.keyword,
         search_volume |-> item.search_volume,
         cpc |-> JsOr(item.cpc, N(0)),
         competition |-> numericCompetition,
         competition_level |-> JsOr(item.competition_level, Str("unknown")),
         keyword_difficulty |-> estimateDifficultyFromMetrics(item),
         serp_urls |-> <<>>,
         commercial_score |-> calculateCommercialScore(itemWithNumericCompetition),
         is_seed |-> TRUE]

\* KeywordResearchTool.analyzeAndCluster: the record stored for a raw item
KRT_keywordEntry(item) ==
    [keyword |-> item.keyword,
     search_volume |-> item.search_volume,
     cpc |-> JsOr(item.cpc, N(0)),
     competition |-> JsOr(item.competition, N(0)),
     competition_level |-> JsOr(item.competition_level, Str("unknown")),
     keyword_difficulty |-> KRT_estimateDifficultyFromMetrics(item),
     serp_urls |-> <<>>,
     commercial_score |-> KRT_calculateCommercialScore(item),
     is_seed |-> TRUE]

\* the response holds at most budget items, or is followed by the block of
\* unrelated keywords, in order
Consume(item) ==
    IF item \in FillerPool
    THEN /\ fill < MaxFill
         /\ item = Filler(fill + 1)
         /\ fill' = fill + 1
         /\ budget' = budget
         /\ cursor' = cursor
    ELSE /\ fill = 0
         /\ budget > 0
         /\ PoolIndex(item) > 0 => PoolIndex(item) > cursor
         /\ cursor' = IF PoolIndex(item) > 0 THEN PoolIndex(item) ELSE cursor
         /\ budget' = budget - 1
         /\ fill' = fill

\* an item is stored whatever its search volume
isKeywordItem_AnyVolume(item) == item.keyword # ""

\* analyzeWebsite: item.keyword && item.search_volume > 0
isKeywordItem(item) == item.keyword # "" /\ JsGt(item.search_volume, N(0))

\* KeywordResearchTool.analyzeAndCluster: item.keyword && item.search_volume > 0
KRT_isKeywordItem(item) == item.keyword # "" /\ JsGt(item.search_volume, N(0))

\* one iteration of volumeResults.forEach in analyzeWebsite
ProcessMetricsItem(item) ==
    /\ impl = "utils"
    /\ pc = "metrics"
    /\ Consume(item)
    /\ keywordDB' = IF isKeywordItem(item)
                    THEN MapSet(keywordDB, keywordEntry(item))
                    ELSE keywordDB
    /\ UNCHANGED <<impl, related, taskItems, serpVars, pc, served, serpCount, input,
                   keywords, processed, clusters, idx, returned, report, now, secondInput,
                   secondReport>>

\* one iteration of volumeResults.forEach in analyzeAndCluster
KRT_ProcessMetricsItem(item) ==
    /\ impl = "class"
    /\ pc = "metrics"
    /\ Consume(item)
    /\ keywordDB' = IF KRT_isKeywordItem(item)
                    THEN MapSet(keywordDB, KRT_keywordEntry(item))
                    ELSE keywordDB
    /\ UNCHANGED <<impl, related, taskItems, serpVars, pc, served, serpCount, input,
                   keywords, processed, clusters, idx, returned, report, now, secondInput,
                   secondReport>>

\* one iteration of relatedResults.filter(...).slice(0, 500).forEach in
\* analyzeAndCluster: an item that passes the filter is stored unless the
\* table has its keyword
KRT_relatedEntry(item) == [KRT_keywordEntry(item) EXCEPT !.is_seed = FALSE]

KRT_ProcessRelatedItem(item) ==
    /\ impl = "class"
    /\ pc \in {"metrics", "related"}
    /\ fill \in {0, MaxFill}
    /\ related < MaxRelated
    /\ related' = related + 1
    /\ pc' = "related"
    /\ keywordDB' = IF JsGt(item.search_volume, N(50)) /\ ~MapHas(keywordDB, item.keyword)
                    THEN MapSet(keywordDB, KRT_relatedEntry(item))
                    ELSE keywordDB
    /\ UNCHANGED <<impl, taskItems, serpVars, budget, fill, cursor, served, serpCount,
                   input, keywords, processed, clusters, idx, returned, report, now,
                   secondInput, secondReport>>

\* the ranking pages kept for a task: the first 10 organic results that have
\* a url, each with its domain, those without a domain removed
organicOf(items) ==
    FilterIdx(items, {i \in 1..Len(items) : items[i].type = "organic" /\ items[i].url # ""}, 1)

topUrlsOf(organicResults) ==
    LET top == slice0(organicResults, 10)
        mapped == [i \in 1..Len(top) |-> [url |-> top[i].url, domain |-> extractDomain(top[i].url)]]
    IN  FilterIdx(mapped, {i \in 1..Len(mapped) : mapped[i].domain # ""}, 1)

KRT_topUrlsOf(organicResults) ==
    LET top == slice0(organicResults, 10)
        mapped == [i \in 1..Len(top) |->
                      [url |-> top[i].url, domain |-> KRT_extractDomain(top[i].url)]]
    IN  FilterIdx(mapped, {i \in 1..Len(mapped) : mapped[i].domain # ""}, 1)

\* the record takes the page-based estimate even when it is 0
withSerp_PagesOnly(keywordData, items) ==
    [keywordData EXCEPT !.serp_urls = topUrlsOf(organicOf(items)),
                        !.keyword_difficulty = calculateDifficulty(organicOf(items))]

\* analyzeWebsite: the record after a task for its keyword
withSerp(keywordData, items) ==
    LET organicResults == organicOf(items)
        updated == [keywordData EXCEPT !.serp_urls = topUrlsOf(organicResults)]
    IN  [updated EXCEPT !.keyword_difficulty =
            JsOr(calculateDifficulty(organicResults), estimateDifficultyFromMetrics(updated))]

KRT_withSerp(keywordData, items) ==
    LET organicResults == organicOf(items)
        updated == [keywordData EXCEPT !.serp_urls = KRT_topUrlsOf(organicResults)]
        serpDifficulty == KRT_calculateDifficulty(organicResults)
        fallbackDifficulty == KRT_estimateDifficultyFromMetrics(updated)
    IN  [updated EXCEPT !.keyword_difficulty =
            IF JsGt(serpDifficulty, N(0)) THEN serpDifficulty ELSE fallbackDifficulty]

\* the metrics loop is over: the block of unrelated keywords is whole or absent
MetricsDone ==
    /\ pc \in {"metrics", "related", "serp"}
    /\ fill \in {0, MaxFill}

\* one iteration of serpResults.forEach for a task that carries items and
\* names the k-th keyword of the table
ProcessSerpTask(k, items) ==
    /\ impl = "utils"
    /\ MetricsDone
    /\ serpCount < MaxSerp
    /\ k \in (served + 1)..Len(keywordDB)
    /\ keywordDB' = [keywordDB EXCEPT ![k] = withSerp(@, items)]
    /\ served' = k
    /\ taskItems' = items
    /\ serpCount' = serpCount + 1
    /\ pc' = "serp"
    /\ UNCHANGED <<impl, serpVars, related, budget, fill, cursor, input, keywords,
                   processed, clusters, idx, returned, report, now, secondInput,
                   secondReport>>

KRT_ProcessSerpTask(k, items) ==
    /\ impl = "class"
    /\ MetricsDone
    /\ serpCount < MaxSerp
    /\ k \in (served + 1)..Len(keywordDB)
    /\ keywordDB' = [keywordDB EXCEPT ![k] = KRT_withSerp(@, items)]
    /\ served' = k
    /\ taskItems' = items
    /\ serpCount' = serpCount + 1
    /\ pc' = "serp"
    /\ UNCHANGED <<impl, serpVars, related, budget, fill, cursor, input, keywords,
                   processed, clusters, idx, returned, report, now, secondInput,
                   secondReport>>

\* the seed keywords of a run with a collection of ranking pages
SeedList == <<"buy running shoes", "hire plumber", "cheap tv">>

seedKeywords == slice0(SeedList, MaxSeeds)

\* what a request of getSerpData meets: a response that is not ok, an error
\* thrown by fetch or by response.json(), or a body with a status code and
\* tasks
FailedResponse == [kind |-> "failed", status_code |-> 0, tasks |-> <<>>]

ErrorResponse == [kind |-> "error", status_code |-> 0, tasks |-> <<>>]

JsonResponse(status_code, tasks) == [kind |-> "json", status_code |-> status_code, tasks |-> tasks]

\* a task with a result that has items, and a task without a result
SerpTask(keyword, items) == [keyword |-> keyword, hasItems |-> TRUE, items |-> items]

ErrorTask(keyword) == [keyword |-> keyword, hasItems |-> FALSE, items |-> <<>>]

ResponsesFor(keyword) ==
    {FailedResponse,
     ErrorResponse,
     JsonResponse(20000, <<SerpTask(keyword, <<Organic("foo")>>)>>),
     JsonResponse(20000, <<SerpTask(keyword, <<Organic("https://www.amazon.com/dp/1"),
                                               Organic("https://shop.example.com/a")>>)>>),
     JsonResponse(40000, <<ErrorTask(keyword)>>)}

\* the loop stops at the first request that fails
remainingAfter_AbortOnFailure(rest, response) ==
    IF response.kind = "json" THEN Tail(rest) ELSE <<>>

\* getSerpData: `continue` and the catch block lie inside the for loop, which
\* goes on with the next keyword whatever the request met
remainingAfter(rest, response) == Tail(rest)

\* utils getSerpData: the first task of a body with status code 20000 is kept
collected(results, response) ==
    IF response.kind = "json" /\ response.status_code = 20000 /\ Len(response.tasks) > 0
    THEN Append(results, response.tasks[1])
    ELSE results

\* KeywordResearchTool.getSerpData: every body is kept, and the tasks of the
\* bodies are flattened into one list
KRT_collected(results, response) ==
    IF response.kind = "json" THEN results \o response.tasks ELSE results

\* one iteration of the for loop of getSerpData
RequestSerp(response) ==
    /\ impl = "utils"
    /\ pc = "request"
    /\ toRequest # <<>>
    /\ response \in ResponsesFor(Head(toRequest))
    /\ requested' = Append(requested, Head(toRequest))
    /\ serpResults' = collected(serpResults, response)
    /\ toRequest' = remainingAfter(toRequest, response)
    /\ UNCHANGED <<impl, pc, budget, fill, cursor, served, serpCount, related, taskItems,
                   taskIdx, keywordDB, input, keywords, processed, clusters, idx, returned,
                   report, now, secondInput, secondReport>>

KRT_RequestSerp(response) ==
    /\ impl = "class"
    /\ pc = "request"
    /\ toRequest # <<>>
    /\ response \in ResponsesFor(Head(toRequest))
    /\ requested' = Append(requested, Head(toRequest))
    /\ serpResults' = KRT_collected(serpResults, response)
    /\ toRequest' = remainingAfter(toRequest, response)
    /\ UNCHANGED <<impl, pc, budget, fill, cursor, served, serpCount, related, taskItems,
                   taskIdx, keywordDB, input, keywords, processed, clusters, idx, returned,
                   report, now, secondInput, secondReport>>

\* the return statement of getSerpData; the metrics response is processed next
ReturnSerpData ==
    /\ pc = "request"
    /\ toRequest = <<>>
    /\ pc' = "metrics"
    /\ UNCHANGED <<impl, budget, fill, cursor, served, serpCount, related, taskItems,
                   serpVars, keywordDB, input, keywords, processed, clusters, idx, returned,
                   report, now, secondInput, secondReport>>

\* the position in the table of the record of keyword k
IndexOf(db, k) == CHOOSE i \in 1..Len(db) : db[i].keyword = k

\* a collected task updates a record: it has items and names a keyword of
\* the table
Usable(task, db) == task.hasItems /\ task.keyword # "" /\ MapHas(db, task.keyword)

\* one iteration of serpResults.forEach in analyzeWebsite
IngestSerpTask ==
    /\ impl = "utils"
    /\ MetricsDone
    /\ taskIdx < Len(serpResults)
    /\ taskIdx' = taskIdx + 1
    /\ pc' = "serp"
    /\ IF Usable(serpResults[taskIdx + 1], keywordDB)
       THEN /\ served' = IndexOf(keywordDB, serpResults[taskIdx + 1].keyword)
            /\ keywordDB' = [keywordDB EXCEPT
                                ![served'] = withSerp(@, serpResults[taskIdx + 1].items)]
            /\ taskItems' = serpResults[taskIdx + 1].items
            /\ serpCount' = serpCount + 1
       ELSE UNCHANGED <<keywordDB, served, taskItems, serpCount>>
    /\ UNCHANGED <<impl, budget, fill, cursor, related, toRequest, requested, serpResults,
                   input, keywords, processed, clusters, idx, returned, report, now,
                   secondInput, secondReport>>

\* one iteration of serpResults.forEach in analyzeAndCluster
KRT_IngestSerpTask ==
    /\ impl = "class"
    /\ MetricsDone
    /\ taskIdx < Len(serpResults)
    /\ taskIdx' = taskIdx + 1
    /\ pc' = "serp"
    /\ IF Usable(serpResults[taskIdx + 1], keywordDB)
       THEN /\ served' = IndexOf(keywordDB, serpResults[taskIdx + 1].keyword)
            /\ keywordDB' = [keywordDB EXCEPT
                                ![served'] = KRT_withSerp(@, serpResults[taskIdx + 1].items)]
            /\ taskItems' = serpResults[taskIdx + 1].items
            /\ serpCount' = serpCount + 1
       ELSE UNCHANGED <<keywordDB, served, taskItems, serpCount>>
    /\ UNCHANGED <<impl, budget, fill, cursor, related, toRequest, requested, serpResults,
                   input, keywords, processed, clusters, idx, returned, report, now,
                   secondInput, secondReport>>

\* the values of the table, none filtered out
keywordsArrayOf_Unfiltered(db) == db

\* Array.from(keywordDB.values()).filter(kw => kw.search_volume > 20)
keywordsArrayOf(db) ==
    FilterIdx(db, {i \in 1..Len(db) : JsGt(db[i].search_volume, N(20))}, 1)

\* the call of createClusters up to its forEach, once serpResults.forEach has
\* gone through the collected tasks: the list is sorted in place
StartCreateClusters ==
    /\ MetricsDone
    /\ taskIdx = Len(serpResults)
    /\ input' = keywordsArrayOf(keywordDB)
    /\ keywords' = IF impl = "utils" THEN sortKeywords(keywordsArrayOf(keywordDB))
                   ELSE KRT_sortKeywords(keywordsArrayOf(keywordDB))
    /\ processed' = {}
    /\ clusters' = <<>>
    /\ idx' = 1
    /\ pc' = "cluster"
    /\ UNCHANGED <<impl, related, taskItems, serpVars, budget, fill, cursor, served,
                   serpCount, keywordDB, returned, report, now, secondInput,
                   secondReport>>

\* the loop state of createClusters becomes st
LoopStateBecomes(st) ==
    /\ processed' = st.processed
    /\ clusters' = st.clusters
    /\ idx' = st.idx

\* one iteration of the outer forEach of createClusters
FormCluster ==
    /\ pc = "cluster"
    /\ idx <= Len(keywords)
    /\ LoopStateBecomes(clusterStep([keywords |-> keywords, processed |-> processed,
                                     clusters |-> clusters, idx |-> idx], impl))
    /\ UNCHANGED <<impl, related, taskItems, serpVars, pc, budget, fill, cursor, served,
                   serpCount, keywordDB, input, keywords, returned, report, now,
                   secondInput, secondReport>>

\* the return statement of createClusters
ReturnClusters ==
    /\ pc = "cluster"
    /\ idx > Len(keywords)
    /\ returned' = IF impl = "utils" THEN sortClusters(clusters) ELSE KRT_sortClusters(clusters)
    /\ pc' = "clustered"
    /\ UNCHANGED <<impl, related, taskItems, serpVars, budget, fill, cursor, served,
                   serpCount, keywordDB, input, keywords, processed, clusters, idx,
                   report, now, secondInput, secondReport>>

GenerateReport ==
    /\ pc = "clustered"
    /\ report' = IF impl = "utils" THEN generateReport(returned)
                 ELSE KRT_generateReport(returned, now)
    /\ pc' = "done"
    /\ UNCHANGED <<impl, related, taskItems, serpVars, budget, fill, cursor, served,
                   serpCount, keywordDB, input, keywords, processed, clusters, idx,
                   returned, now, secondInput, secondReport>>

\* time passes between two runs
Tick ==
    /\ pc = "done"
    /\ now < MaxClock
    /\ now' = now + 1
    /\ UNCHANGED <<impl, related, taskItems, serpVars, pc, budget, fill, cursor, served,
                   serpCount, keywordDB, input, keywords, processed, clusters, idx,
                   returned, report, secondInput, secondReport>>

\* the second run has sorted the list it was given, if it was given the
\* list of the first run, and has made its report
SecondRunDone(run, fresh) ==
    /\ keywords' = IF fresh THEN keywords ELSE run.keywords
    /\ secondReport' = IF impl = "utils" THEN generateReport(run.clusters)
                       ELSE KRT_generateReport(run.clusters, now)

SecondRun(list, fresh) ==
    /\ secondInput' = list
    /\ SecondRunDone(IF impl = "utils" THEN createClusters(list) ELSE KRT_createClusters(list),
                     fresh)

\* createClusters and generateReport run again, on a list equal to the one
\* the first run was given (fresh = TRUE) or on the very list the first run
\* sorted in place
RunAgain(fresh) ==
    /\ pc = "done"
    /\ SecondRun(IF fresh THEN input ELSE keywords, fresh)
    /\ pc' = "done2"
    /\ UNCHANGED <<impl, related, taskItems, serpVars, budget, fill, cursor, served,
                   serpCount, keywordDB, input, processed, clusters, idx, returned,
                   report, now>>

\* a run that starts at start with a response of at most b metric items and
\* the seed keywords seeds
InitRun(b, start, seeds) ==
    /\ impl \in {"utils", "class"}
    /\ pc = start
    /\ budget = b
    /\ fill = 0
    /\ cursor = 0
    /\ served = 0
    /\ serpCount = 0
    /\ related = 0
    /\ taskItems = <<>>
    /\ toRequest = (IF impl = "utils" THEN slice0(seeds, 50) ELSE slice0(seeds, 15))
    /\ requested = <<>>
    /\ serpResults = <<>>
    /\ taskIdx = 0
    /\ keywordDB = <<>>
    /\ input = <<>>
    /\ keywords = <<>>
    /\ processed = {}
    /\ clusters = <<>>
    /\ idx = 1
    /\ returned = <<>>
    /\ report = NoReport
    /\ now = 0
    /\ secondInput = <<>>
    /\ secondReport = NoReport

\* a run whose ranking pages arrive as tasks, the collection left out
InitWith(b) == InitRun(b, "metrics", <<>>)

Init == InitWith(MaxItems)

\* runs on responses of up to MaxItems items of the mixed pool, with
\* ranking-page tasks for the first keywords of the table
Next ==
    \/ \E item \in MixedPool : ProcessMetricsItem(item)
    \/ \E item \in MixedPool : KRT_ProcessMetricsItem(item)
    \/ \E k \in 1..MaxSerp, items \in SerpPool : ProcessSerpTask(k, items)
    \/ \E k \in 1..MaxSerp, items \in SerpPool : KRT_ProcessSerpTask(k, items)
    \/ StartCreateClusters
    \/ FormCluster
    \/ ReturnClusters
    \/ GenerateReport

Spec == Init /\ [][Next]_vars

\* runs on a response of one item, any item of the wide pool
InitRecord == InitWith(1)

NextRecord ==
    \/ \E item \in WidePool : ProcessMetricsItem(item)
    \/ \E item \in WidePool : KRT_ProcessMetricsItem(item)
    \/ \E k \in 1..MaxSerp, items \in SerpPool : ProcessSerpTask(k, items)
    \/ \E k \in 1..MaxSerp, items \in SerpPool : KRT_ProcessSerpTask(k, items)
    \/ StartCreateClusters
    \/ FormCluster
    \/ ReturnClusters
    \/ GenerateReport

SpecRecord == InitRecord /\ [][NextRecord]_vars

\* runs on many keywords, without ranking pages, followed by a second run of
\* createClusters and generateReport
InitMany == InitWith(MaxPrefix)

NextMany ==
    \/ \E item \in PrefixPool \cup FillerPool : ProcessMetricsItem(item)
    \/ \E item \in PrefixPool \cup FillerPool : KRT_ProcessMetricsItem(item)
    \/ StartCreateClusters
    \/ FormCluster
    \/ ReturnClusters
    \/ GenerateReport
    \/ Tick
    \/ \E fresh \in BOOLEAN : RunAgain(fresh)

SpecMany == InitMany /\ [][NextMany]_vars

\* runs on responses of up to MaxLex items whose keywords share words, with
\* a related-keywords response in the class, without ranking pages
InitLex == InitWith(MaxLex)

NextLex ==
    \/ \E item \in LexPool : ProcessMetricsItem(item)
    \/ \E item \in LexPool : KRT_ProcessMetricsItem(item)
    \/ \E item \in RelatedPool : KRT_ProcessRelatedItem(item)
    \/ StartCreateClusters
    \/ FormCluster
    \/ ReturnClusters
    \/ GenerateReport

SpecLex == InitLex /\ [][NextLex]_vars

\* runs that collect the ranking pages of the seed keywords, request by
\* request, before the metrics response of up to MaxItems items of the mixed
\* pool is processed and the collected tasks are gone through
InitSerp == InitRun(MaxItems, "request", seedKeywords)

ResponsePool == UNION {ResponsesFor(k) : k \in SeqToSet(seedKeywords)}

NextSerp ==
    \/ \E response \in ResponsePool : RequestSerp(response)
    \/ \E response \in ResponsePool : KRT_RequestSerp(response)
    \/ ReturnSerpData
    \/ \E item \in MixedPool : ProcessMetricsItem(item)
    \/ \E item \in MixedPool : KRT_ProcessMetricsItem(item)
    \/ IngestSerpTask
    \/ KRT_IngestSerpTask
    \/ StartCreateClusters
    \/ FormCluster
    \/ ReturnClusters
    \/ GenerateReport

SpecSerp == InitSerp /\ [][NextSerp]_vars

(***************************************************************************)
(* Properties                                                              *)
(***************************************************************************)
Returned == pc \in {"clustered", "done", "done2"}

Reported == pc \in {"done", "done2"}

\* the places (cluster, member) of the returned list that hold record r
PlacesOf(r) ==
    {<<j, m>> \in (1..Len(returned)) \X (1..(MaxItems + MaxPrefix + MaxFill + 1)) :
        m <= Len(returned[j].keywords) /\ returned[j].keywords[m] = r}

\* C1: the clusters createClusters returns partition its input: every input
\* record is a member of exactly one returned cluster, and every member of a
\* returned cluster is an input record.
C1_ClustersPartitionInput ==
    Returned =>
        /\ \A i \in 1..Len(input) : Cardinality(PlacesOf(input[i])) = 1
        /\ \A j \in 1..Len(returned) : \A m \in 1..Len(returned[j].keywords) :
              \E i \in 1..Len(input) : input[i] = returned[j].keywords[m]

\* C2: every returned cluster has total_search_volume equal to the sum of
\* search_volume over its members.
C2_TotalVolumeIsSum ==
    Returned =>
        \A j \in 1..Len(returned) :
            returned[j].total_search_volume =
                Sum([m \in 1..Len(returned[j].keywords) |-> returned[j].keywords[m].search_volume])

C2_Witness ==
    /\ Returned
    /\ \E j \in 1..Len(returned) :
          /\ Len(returned[j].keywords) >= 2
          /\ returned[j].total_search_volume = N(1800)

\* C3: every keyword record has commercial_score >= 10, whatever the raw
\* search_volume, cpc and competition were (zero, missing, NaN, negative, or a
\* competition label).
C3_ScoreAtLeastTen ==
    \A i \in 1..Len(keywordDB) : JsGe(keywordDB[i].commercial_score, N(10))

C3_Witness ==
    \E i \in 1..Len(keywordDB) :
        /\ keywordDB[i].commercial_score = N(10)
        /\ JsLt(keywordDB[i].competition, N(0))

\* C4: every keyword record that reaches clustering has a keyword_difficulty
\* between 0 and 100, from the ranking pages or from the metrics.
C4_DifficultyInRange ==
    pc \notin {"metrics", "serp"} =>
        \A i \in 1..Len(input) :
            /\ JsGe(input[i].keyword_difficulty, N(0))
            /\ JsGe(N(100), input[i].keyword_difficulty)

C4_Witness ==
    /\ pc \notin {"metrics", "serp"}
    /\ \E i \in 1..Len(input) :
          /\ Len(input[i].serp_urls) = 10
          /\ input[i].keyword_difficulty = N(100)

ClusterList == IF impl = "utils" THEN report.rawData ELSE report.clusters

QuickWins == IF impl = "utils" THEN report.quickWins ELSE report.quick_wins

HighValue == IF impl = "utils" THEN report.highValueTargets ELSE report.high_value

Occurs(c, q) == \E i \in 1..Len(q) : q[i] = c

ScoreDescending(q) ==
    \A i \in 1..Len(q) : \A j \in i..Len(q) :
        JsGe(q[i].total_commercial_score, q[j].total_commercial_score)

\* sel holds the (at most) five highest-scoring clusters among those at the
\* positions qualifying of all
FiveBest(sel, all, qualifying) ==
    /\ \A k \in 1..Len(sel) : \E i \in qualifying : all[i] = sel[k]
    /\ ScoreDescending(sel)
    /\ Len(sel) = IF Cardinality(qualifying) < 5 THEN Cardinality(qualifying) ELSE 5
    /\ \A i \in qualifying :
          ~Occurs(all[i], sel) =>
              \A k \in 1..Len(sel) :
                  JsGe(sel[k].total_commercial_score, all[i].total_commercial_score)

QuickWinCriteria(c) == JsLt(c.avg_difficulty, N(40)) /\ JsGt(c.total_search_volume, N(50))

HighValueCriteria(c) == JsGt(c.total_commercial_score, N(1000)) /\ JsLt(c.avg_difficulty, N(65))

\* C5: the quick-win list holds clusters of the report's cluster list only,
\* each with avg_difficulty < 40 and total_search_volume > 50, ordered by
\* total_commercial_score descending, and they are the 5 highest-scoring
\* qualifying clusters (all of them when fewer than 5 qualify).
C5_QuickWins ==
    Reported =>
        FiveBest(QuickWins, ClusterList,
                 {i \in 1..Len(ClusterList) : QuickWinCriteria(ClusterList[i])})

\* C6: the high-value list holds clusters of the report's cluster list only,
\* each with total_commercial_score > 1000 and avg_difficulty < 65, ordered by
\* total_commercial_score descending, and they are the 5 highest-scoring
\* qualifying clusters (all of them when fewer than 5 qualify).
C6_HighValue ==
    Reported =>
        FiveBest(HighValue, ClusterList,
                 {i \in 1..Len(ClusterList) : HighValueCriteria(ClusterList[i])})

AllCompetitorDomains ==
    Flatten([j \in 1..Len(ClusterList) |-> ClusterList[j].competitor_domains])

\* C7: the competitor table has at most 10 entries, no domain twice, each
\* frequency is the number of occurrences of the domain in the flattened
\* competitor_domains of all clusters, and the frequencies do not increase.
\* The table of the class holds bare domains, so only the first two parts
\* can be said of it.
C7_CompetitorTable ==
    Reported =>
        IF impl = "utils"
        THEN LET t == report.mainCompetitors
             IN  /\ Len(t) <= 10
                 /\ \A a \in 1..Len(t) : \A b \in 1..Len(t) : a # b => t[a].domain # t[b].domain
                 /\ \A a \in 1..Len(t) :
                       t[a].frequency =
                           Cardinality({i \in 1..Len(AllCompetitorDomains) :
                                           AllCompetitorDomains[i] = t[a].domain})
                 /\ \A a \in 1..Len(t) : \A b \in a..Len(t) : t[a].frequency >= t[b].frequency
        ELSE LET t == report.competitors
             IN  /\ Len(t) <= 10
                 /\ \A a \in 1..Len(t) : \A b \in 1..Len(t) : a # b => t[a] # t[b]

\* the report without the clock reading the class stamps on it
Undated(r) ==
    IF impl = "utils" THEN r
    ELSE [r EXCEPT !.analysis_summary.analysis_date = 0]

\* C8: a second run of createClusters and generateReport on the same records
\* yields the same report, also when it is given the very list the first run
\* sorted.
C8_SameReportTwice == pc = "done2" => secondReport = report

\* C8 as amended: the two reports agree in everything but the analysis_date
\* of the class's summary.
C8_SameReportButDate == pc = "done2" => Undated(secondReport) = Undated(report)

C8_Witness ==
    /\ pc = "done2"
    /\ secondInput # input
    /\ Len(secondInput) >= MaxFill
    /\ now > 0

\* C9: the cluster_id values of the returned list are pairwise distinct and
\* are exactly 1..N for N returned clusters; ids follow creation order.
C9_ClusterIds ==
    Returned =>
        /\ {returned[j].cluster_id : j \in 1..Len(returned)} = 1..Len(returned)
        /\ \A j \in 1..Len(clusters) : clusters[j].cluster_id = j

\* C10: in every cluster main_keyword is the keyword of the first member,
\* and no member has a higher commercial_score than that member.
C10_MainKeywordIsBest ==
    Returned =>
        \A j \in 1..Len(returned) :
            /\ returned[j].main_keyword = returned[j].keywords[1].keyword
            /\ \A m \in 1..Len(returned[j].keywords) :
                  JsGe(returned[j].keywords[1].commercial_score,
                       returned[j].keywords[m].commercial_score)

C10_Witness ==
    /\ Returned
    /\ Len(input) >= 2
    /\ \E j \in 1..Len(returned) :
          /\ Len(returned[j].keywords) >= 2
          /\ returned[j].keywords[1] = input[2]
          /\ returned[j].keywords[2] = input[1]
          /\ JsGt(input[2].commercial_score, input[1].commercial_score)

\* the arithmetic mean of a list of numbers
Mean(vals) == JsDiv(Sum(vals), N(Len(vals)))

\* C11: every returned cluster has avg_cpc equal to the arithmetic mean of
\* cpc over all its members and avg_difficulty equal to the arithmetic mean
\* of keyword_difficulty over all its members, whatever the cluster's size.
C11_AveragesAreMeans ==
    Returned =>
        \A j \in 1..Len(returned) :
            LET members == returned[j].keywords
            IN  /\ returned[j].avg_cpc = Mean([m \in 1..Len(members) |-> members[m].cpc])
                /\ returned[j].avg_difficulty =
                       Mean([m \in 1..Len(members) |-> members[m].keyword_difficulty])

\* C12: the report's cluster list is in non-increasing order of
\* total_commercial_score, and every cluster's total_commercial_score is the
\* sum of its members' commercial_score.
C12_ClustersByScore ==
    Reported =>
        /\ ScoreDescending(ClusterList)
        /\ \A j \in 1..Len(ClusterList) :
              LET members == ClusterList[j].keywords
              IN  ClusterList[j].total_commercial_score =
                      Sum([m \in 1..Len(members) |-> members[m].commercial_score])

\* the cluster formed second, of two members, is listed first
C12_Witness ==
    /\ Reported
    /\ Len(ClusterList) >= 2
    /\ ClusterList[1].cluster_id > 1
    /\ Len(ClusterList[1].keywords) >= 2
    /\ ClusterList[1].total_commercial_score # ClusterList[2].total_commercial_score

\* C13: a run whose keyword set is empty after the volume filter produces a
\* report whose cluster list, quick wins, high-value targets, competitor
\* table and action plan are empty and whose summary metrics (keyword count,
\* total volume, average difficulty, average cpc) are exactly zero, never NaN.
C13_EmptyReport ==
    (Reported /\ input = <<>>) =>
        IF impl = "utils"
        THEN /\ report.rawData = <<>>
             /\ report.topKeywordClusters = <<>>
             /\ report.quickWins = <<>>
             /\ report.highValueTargets = <<>>
             /\ report.mainCompetitors = <<>>
             /\ report.actionPlan = <<>>
             /\ report.summaryCards.totalKeywords = N(0)
             /\ report.summaryCards.totalVolume = N(0)
             /\ report.summaryCards.avgDifficulty = N(0)
        ELSE /\ report.clusters = <<>>
             /\ report.quick_wins = <<>>
             /\ report.high_value = <<>>
             /\ report.competitors = <<>>
             /\ report.analysis_summary.total_keywords_analyzed = N(0)
             /\ report.analysis_summary.total_monthly_search_volume = N(0)
             /\ report.analysis_summary.avg_cpc = N(0)

\* the clusters formed so far and the clusters returned
AllClusters == clusters \o returned

\* C14: a raw record whose search_volume is zero, negative or absent never
\* becomes a keyword record: processing it leaves the keyword table as it
\* was, every record of the table and every member of a cluster has a
\* search_volume above zero, and the totals are sums over those members only.
C14_NoVolumeNoRecord ==
    /\ [](/\ \A i \in 1..Len(keywordDB) : JsGt(keywordDB[i].search_volume, N(0))
          /\ \A j \in 1..Len(AllClusters) :
                /\ \A m \in 1..Len(AllClusters[j].keywords) :
                      JsGt(AllClusters[j].keywords[m].search_volume, N(0))
                /\ AllClusters[j].total_search_volume =
                       Sum([m \in 1..Len(AllClusters[j].keywords) |->
                               AllClusters[j].keywords[m].search_volume]))
    /\ [][\A item \in LexPool \cup RelatedPool :
             (/\ ~JsGt(item.search_volume, N(0))
              /\ \/ ProcessMetricsItem(item)
                 \/ KRT_ProcessMetricsItem(item)
                 \/ KRT_ProcessRelatedItem(item))
             => keywordDB' = keywordDB]_vars

\* the last item of the response had no search volume above zero, and the
\* run has reported the clusters of the other items
C14_Witness ==
    /\ Reported
    /\ Len(ClusterList) > 0
    /\ \E item \in LexPool : ~JsGt(item.search_volume, N(0)) /\ cursor = PoolIndex(item)

\* the theme the running implementation gives a keyword
ThemeOf(keyword) == IF impl = "utils" THEN identifyTheme(keyword) ELSE KRT_identifyTheme(keyword)

\* the input is exactly two records, without ranking pages, whose keywords
\* have a Jaccard word similarity above 0.3
TwoSimilarRecords ==
    /\ Len(input) = 2
    /\ input[1].serp_urls = <<>>
    /\ input[2].serp_urls = <<>>
    /\ JsGt(calculateKeywordSimilarity(input[1].keyword, input[2].keyword), Rat(3, 10))

\* C15: an input of exactly two records whose keywords have a Jaccard word
\* similarity above 0.3, neither with ranking pages, yields a single cluster
\* that holds both records, whose main keyword and theme are those of the
\* record with the higher commercial score and whose total_search_volume is
\* the sum of the two volumes.
C15_TwoSimilarRecordsOneCluster ==
    (Returned /\ TwoSimilarRecords) =>
        /\ Len(returned) = 1
        /\ SeqToSet(returned[1].keywords) = {input[1], input[2]}
        /\ \E b \in 1..2 :
              /\ \A o \in 1..2 : JsGe(input[b].commercial_score, input[o].commercial_score)
              /\ returned[1].main_keyword = input[b].keyword
              /\ returned[1].theme = ThemeOf(input[b].keyword)
        /\ returned[1].total_search_volume =
               JsPlus(input[1].search_volume, input[2].search_volume)

\* C16: the keyword table holds at most one record per keyword text, and an
\* item whose keyword the table already holds is ignored: processing it adds
\* no record and leaves the first record unchanged.
C16_FirstOccurrenceKept ==
    /\ [](\A i, j \in 1..Len(keywordDB) : keywordDB[i].keyword = keywordDB[j].keyword => i = j)
    /\ [][\A item \in LexPool \cup RelatedPool :
             (/\ MapHas(keywordDB, item.keyword)
              /\ \/ ProcessMetricsItem(item)
                 \/ KRT_ProcessMetricsItem(item)
                 \/ KRT_ProcessRelatedItem(item))
             => keywordDB' = keywordDB]_vars

\* the main term as the specification defines it: the longest word that is
\* no stop word, the first of them on a tie, the first word when every word
\* is a stop word
MainTerm(keyword) ==
    LET words == split(toLowerCase(keyword), " ")
        nonStop == FilterIdx(words, {i \in 1..Len(words) : words[i] \notin stopWords}, 1)
    IN  IF nonStop # <<>> THEN FirstLongest(nonStop) ELSE words[1]

\* C20: the main term findMainTerm computes for the keyword of a record is
\* the longest of the keyword's words that is not a stop word, the first such
\* word in keyword order when several have the greatest length, and the
\* keyword's first word when every word is a stop word.
C20_MainTerm ==
    impl = "utils" =>
        \A i \in 1..Len(keywords) : findMainTerm(keywords[i].keyword) = MainTerm(keywords[i].keyword)

\* the merge rule of the specification: the Jaccard index of the two word
\* sets is above 0.3, or the other keyword contains the seed's main term
MergeRule(seedKeyword, otherKeyword) ==
    \/ JsGt(calculateKeywordSimilarity(seedKeyword, otherKeyword), Rat(3, 10))
    \/ includes(toLowerCase(otherKeyword), MainTerm(seedKeyword))

\* C19: when createClusters forms the cluster of a seed, each record that is
\* still unprocessed is added to that cluster if and only if the Jaccard
\* index of the two keywords' word sets is above 0.3 or its keyword contains
\* the seed's main term; hence every member of a cluster other than its seed
\* satisfies this condition with its own seed and with the seed of no cluster
\* formed earlier.
C19_MergeRule ==
    /\ [](\A c \in 1..Len(clusters) : \A m \in 2..Len(clusters[c].keywords) :
             /\ MergeRule(clusters[c].keywords[1].keyword, clusters[c].keywords[m].keyword)
             /\ \A e \in 1..(c - 1) :
                   ~MergeRule(clusters[e].keywords[1].keyword, clusters[c].keywords[m].keyword))
    /\ [][(pc = "cluster" /\ Len(clusters') = Len(clusters) + 1) =>
             \A j \in 1..Len(keywords) :
                 (keywords[j].keyword \notin processed /\ j # idx) =>
                     ((keywords[j].keyword \in memberKeywords(clusters'[Len(clusters')]))
                        <=> MergeRule(keywords[idx].keyword, keywords[j].keyword))]_vars

\* no other input record is similar to or overlaps with input record i: the
\* merge rule holds in neither direction
NoPeer(i) ==
    \A j \in 1..Len(input) :
        j # i => /\ ~MergeRule(input[i].keyword, input[j].keyword)
                 /\ ~MergeRule(input[j].keyword, input[i].keyword)

\* the non-empty domains of the ranking pages of a cluster's members
MemberDomains(cluster) ==
    {cluster.keywords[m].serp_urls[u].domain :
        <<m, u>> \in {<<m, u>> \in (1..Len(cluster.keywords)) \X (1..10) :
                        u <= Len(cluster.keywords[m].serp_urls)}} \ {""}

\* C17: every returned cluster has at least one member; its
\* competitor_domains holds no domain twice and is exactly the set of
\* non-empty domains of its members' ranking pages; and an input record with
\* no similar or overlapping peer is the only member of its cluster.
C17_ClusterShape ==
    Returned =>
        /\ \A j \in 1..Len(returned) :
              /\ Len(returned[j].keywords) >= 1
              /\ Cardinality(SeqToSet(returned[j].competitor_domains)) =
                     Len(returned[j].competitor_domains)
              /\ SeqToSet(returned[j].competitor_domains) = MemberDomains(returned[j])
        /\ \A i \in 1..Len(input) :
              NoPeer(i) =>
                  \A j \in 1..Len(returned) :
                      input[i].keyword \in memberKeywords(returned[j]) =>
                          Len(returned[j].keywords) = 1

\* the metrics-derived difficulty as the specification defines it, for a
\* record with numeric search_volume, cpc and competition
SpecMetricsDifficulty(kw) ==
    LET level == toUpperCase(kw.competition_level.s)
        base == IF level = "HIGH" THEN N(70)
                ELSE IF level = "MEDIUM" THEN N(45)
                ELSE IF level = "LOW" THEN N(25)
                ELSE MathMax(N(20), JsTimes(kw.competition, N(100)))
        volumeBonus == IF JsGt(kw.search_volume, N(100000)) THEN N(15)
                       ELSE IF JsGt(kw.search_volume, N(10000)) THEN N(10)
                       ELSE IF JsGt(kw.search_volume, N(1000)) THEN N(5) ELSE N(0)
        cpcBonus == IF JsGt(kw.cpc, N(5)) THEN N(10)
                    ELSE IF JsGt(kw.cpc, N(2)) THEN N(5)
                    ELSE IF JsGt(kw.cpc, N(1)) THEN N(3) ELSE N(0)
    IN  MathMin(N(100), MathMax(N(15), JsPlus(JsPlus(base, volumeBonus), cpcBonus)))

\* the record's keyword_difficulty is the metrics-derived difficulty of the
\* specification, which is at least 70 for the level HIGH
HasMetricsDifficulty(kw) ==
    (kw.competition.t = "num" /\ kw.cpc.t = "num") =>
        /\ kw.keyword_difficulty = SpecMetricsDifficulty(kw)
        /\ toUpperCase(kw.competition_level.s) = "HIGH" => JsGe(kw.keyword_difficulty, N(70))

\* C18: a keyword record without ranking pages, one that no ranking-page
\* task has reached or whose task listed no organic result, has the
\* metrics-derived keyword_difficulty: base + volume bonus + cpc bonus
\* clamped to [15, 100], with base 70 for HIGH, 45 for MEDIUM, 25 for LOW and
\* max(20, competition * 100) for an unknown level, volume bonus 15 above
\* 100000, else 10 above 10000, else 5 above 1000, and cpc bonus 10 above 5,
\* else 5 above 2, else 3 above 1; so with level HIGH it is at least 70.
C18_MetricsDifficulty ==
    /\ [](\A i \in (served + 1)..Len(keywordDB) : HasMetricsDifficulty(keywordDB[i]))
    /\ [][(serpCount' = serpCount + 1 /\ organicOf(taskItems') = <<>>) =>
             HasMetricsDifficulty(keywordDB'[served'])]_vars

\* the intent multiplier as the specification defines it, on a keyword text
SpecIntentMultiplier(text) ==
    LET keyword == toLowerCase(text)
    IN  IF includes(keyword, "buy") \/ includes(keyword, "purchase") \/ includes(keyword, "order")
        THEN Rat(5, 2)
        ELSE IF includes(keyword, "best") \/ includes(keyword, "top") \/ includes(keyword, "review")
        THEN N(2)
        ELSE IF includes(keyword, "price") \/ includes(keyword, "cost") \/ includes(keyword, "cheap")
        THEN Rat(9, 5)
        ELSE IF \/ includes(keyword, "hire") \/ includes(keyword, "service")
                \/ includes(keyword, "company")
        THEN Rat(8, 5)
        ELSE IF includes(keyword, "how to") \/ includes(keyword, "what is")
        THEN Rat(4, 5)
        ELSE N(1)

\* the multiplier the running implementation applies to a keyword text
MultiplierOf(text) ==
    IF impl = "utils" THEN scoreMultiplier(toLowerCase(text))
    ELSE KRT_intentMultiplier(toLowerCase(text))

\* C21: the intent multiplier applied to the keyword of a record is fixed by
\* the first matching group, on the lowercased keyword: buy/purchase/order
\* 2.5; best/top/review 2.0; price/cost/cheap 1.8; hire/service/company 1.6;
\* "how to"/"what is" 0.8; otherwise 1.0.
C21_IntentMultiplier ==
    \A i \in 1..Len(keywordDB) :
        MultiplierOf(keywordDB[i].keyword) = SpecIntentMultiplier(keywordDB[i].keyword)

\* a raw value that is missing or NaN is replaced by the default
OrDefault(v, default) == IF v.t \in {"undef", "nan"} THEN default ELSE v

\* the commercial score as the specification defines it, for a raw item
\* whose competition is a number or missing, with the multiplier the
\* implementation applies
SpecCommercialScore(item) ==
    LET volume == OrDefault(item.search_volume, N(100))
        cpc == OrDefault(item.cpc, Rat(1, 2))
        competition == OrDefault(item.competition, Rat(3, 10))
    IN  MathMax(N(10),
                MathRound(JsTimes(JsTimes(JsTimes(volume, MathMax(Rat(1, 10), cpc)),
                                          MultiplierOf(item.keyword)),
                                  JsPlus(N(1), competition))))

\* the record the table holds for the keyword of item after the step
StoredRecord(item) ==
    keywordDB'[CHOOSE i \in 1..Len(keywordDB') : keywordDB'[i].keyword = item.keyword]

\* the step processes the raw item and stores a record for it
StoredAs(item) ==
    /\ MapHas(keywordDB', item.keyword)
    /\ StoredRecord(item).search_volume = item.search_volume
    /\ \/ ProcessMetricsItem(item) /\ isKeywordItem(item)
       \/ KRT_ProcessMetricsItem(item) /\ KRT_isKeywordItem(item)

\* C22: the record stored for a raw item has commercial_score equal to
\* max(10, round(volume * max(0.1, cpc) * multiplier * (1 + competition))),
\* where a missing or NaN volume is replaced by 100, a missing or NaN cpc by
\* 0.5 and a missing or NaN competition by 0.3, and a supplied cpc of 0 is
\* floored to 0.1 rather than replaced.
C22_CommercialScore ==
    [][budget' = budget - 1 =>
          \A item \in WidePool :
              (/\ item.competition.t # "str"
               /\ StoredAs(item))
              => StoredRecord(item).commercial_score = SpecCommercialScore(item)]_vars

ThemeLabels ==
    {"Purchase Intent", "Research & Comparison", "Educational", "Price Research", "General"}

\* the theme as the specification defines it
SpecTheme(keyword) ==
    LET kw == toLowerCase(keyword)
    IN  IF includes(kw, "buy") \/ includes(kw, "purchase") THEN "Purchase Intent"
        ELSE IF includes(kw, "best") \/ includes(kw, "review") \/ includes(kw, "top")
        THEN "Research & Comparison"
        ELSE IF includes(kw, "how to") \/ includes(kw, "guide") THEN "Educational"
        ELSE IF includes(kw, "price") \/ includes(kw, "cost") THEN "Price Research"
        ELSE "General"

\* C23: the theme of every cluster is one of the five labels, the one of the
\* first test its main keyword passes in the order: contains buy/purchase,
\* Purchase Intent; contains best/review/top, Research & Comparison; contains
\* "how to"/guide, Educational; contains price/cost, Price Research;
\* otherwise General.
C23_Theme ==
    \A j \in 1..Len(AllClusters) :
        /\ AllClusters[j].theme \in ThemeLabels
        /\ AllClusters[j].theme = SpecTheme(AllClusters[j].main_keyword)

\* the two estimates of the running implementation for a record and the
\* organic results of its task
PageEstimate(organicResults) ==
    IF impl = "utils" THEN calculateDifficulty(organicResults)
    ELSE KRT_calculateDifficulty(organicResults)

MetricsEstimate(kw) ==
    IF impl = "utils" THEN estimateDifficultyFromMetrics(kw)
    ELSE KRT_estimateDifficultyFromMetrics(kw)

\* the domain of a url matches the high-authority list of the running
\* implementation
MatchesHighAuthority(url) ==
    IF impl = "utils"
    THEN \E k \in 1..Len(highAuthority) : includes(extractDomain(url), highAuthority[k])
    ELSE \E k \in 1..Len(highAuthorityDomains) :
             includes(KRT_extractDomain(url), highAuthorityDomains[k])

RECURSIVE SpecPageSum(_, _)
\* the sum over the first k results of c_i * (10 - i) / 10, i = 0-based position
SpecPageSum(results, k) ==
    IF k = 0 THEN N(0)
    ELSE JsPlus(SpecPageSum(results, k - 1),
                JsTimes(IF MatchesHighAuthority(results[k].url) THEN N(35) ELSE N(15),
                        Rat(11 - k, 10)))

\* the ranking-page difficulty as the specification defines it
SpecPageDifficulty(results) ==
    MathMin(N(100), MathRound(SpecPageSum(results, IF Len(results) < 10 THEN Len(results) ELSE 10)))

\* C24: the ranking-page difficulty a task gives its keyword is min(100,
\* round(sum over the first 10 ranking pages, at 0-indexed position i, of
\* c_i * (10 - i) / 10)) with c_i = 35 for a page whose domain matches the
\* high-authority list and 15 otherwise; pages beyond the tenth do not
\* change the result and an empty list gives 0.
C24_PageDifficulty ==
    [][serpCount' = serpCount + 1 =>
          /\ PageEstimate(organicOf(taskItems')) = SpecPageDifficulty(organicOf(taskItems'))
          /\ organicOf(taskItems') = <<>> => SpecPageDifficulty(organicOf(taskItems')) = N(0)
          /\ SpecPageDifficulty(organicOf(taskItems')) # N(0) =>
                keywordDB'[served'].keyword_difficulty =
                    SpecPageDifficulty(organicOf(taskItems'))]_vars

\* the selection rule: the page estimate when above 0, else the metrics one
SelectedEstimate(page, metrics) == IF JsGt(page, N(0)) THEN page ELSE metrics

\* C25: a task with ranking-page data sets the keyword_difficulty of its
\* keyword to the ranking-page-derived score when that score is above 0 and
\* to the metrics-derived score otherwise: the value is always exactly one
\* of the two estimates.
C25_DifficultySelection ==
    [][serpCount' = serpCount + 1 =>
          \A organicResults \in {organicOf(taskItems')}, kw \in {keywordDB[served']} :
              keywordDB'[served'].keyword_difficulty =
                  SelectedEstimate(PageEstimate(organicResults), MetricsEstimate(kw))]_vars

\* two tasks have been processed: the first keyword has ranking pages and
\* their score, the second has none and the metrics-derived score
C25_Witness ==
    /\ serpCount = 2
    /\ served = 2
    /\ keywordDB[1].serp_urls # <<>>
    /\ JsGt(keywordDB[1].keyword_difficulty, N(0))
    /\ keywordDB[1].keyword_difficulty # MetricsEstimate(keywordDB[1])
    /\ keywordDB[2].serp_urls = <<>>
    /\ keywordDB[2].keyword_difficulty = MetricsEstimate(keywordDB[2])
    /\ keywordDB[2].keyword_difficulty # N(15)
    /\ keywordDB[2].keyword_difficulty # N(10)

\* the competition the specification derives from a competition level
SpecLevelCompetition(level) ==
    IF level.t # "str" THEN Rat(3, 10)
    ELSE LET up == toUpperCase(level.s)
         IN  IF up = "HIGH" THEN Rat(4, 5)
             ELSE IF up = "MEDIUM" THEN Rat(1, 2)
             ELSE IF up = "LOW" THEN Rat(1, 5)
             ELSE Rat(3, 10)

\* C26: the record stored for a raw item has a competition of type number,
\* and when the raw competition is not a number the stored value is the one
\* of the uppercased competition_level: HIGH 0.8, MEDIUM 0.5, LOW 0.2 and
\* 0.3 for any other or missing level.
C26_NumericCompetition ==
    [][budget' = budget - 1 =>
          \A item \in WidePool :
             StoredAs(item)
          => /\ typeof(StoredRecord(item).competition) = "number"
             /\ typeof(item.competition) # "number" =>
                   StoredRecord(item).competition = SpecLevelCompetition(item.competition_level)]_vars

(***************************************************************************)
(* The action plan of the utils report                                     *)
(***************************************************************************)
StepOrder == <<"Quick Wins", "High Value", "Content", "Competitors">>

\* the position of a step category in the order of the plan, 0 for none
StepRank(category) ==
    IF \E r \in 1..4 : StepOrder[r] = category
    THEN CHOOSE r \in 1..4 : StepOrder[r] = category
    ELSE 0

\* the plan has a step of the category exactly when the trigger list has an
\* element, and that step refers to first
StepFor(plan, category, trigger, first) ==
    /\ (\E i \in 1..Len(plan) : plan[i].category = category) <=> (trigger # <<>>)
    /\ \A i \in 1..Len(plan) : plan[i].category = category => plan[i].ref = first

\* C27: the action plan of a report has at most four steps, in the order
\* quick win, high value, content theme, competitor; a step is in the plan
\* if and only if its trigger list (quick wins, high-value clusters, all
\* clusters, competitor table) is non-empty, and it refers to the first
\* element of that list: the main keyword of the cluster, the theme of the
\* cluster, the domain of the competitor.
C27_ActionPlan ==
    (Reported /\ impl = "utils") =>
        LET plan == report.actionPlan
        IN  /\ Len(plan) <= 4
            /\ \A i \in 1..Len(plan) : StepRank(plan[i].category) > 0
            /\ \A i \in 1..Len(plan) : \A j \in (i + 1)..Len(plan) :
                  StepRank(plan[i].category) < StepRank(plan[j].category)
            /\ StepFor(plan, "Quick Wins", report.quickWins,
                       IF report.quickWins # <<>> THEN report.quickWins[1].main_keyword ELSE "")
            /\ StepFor(plan, "High Value", report.highValueTargets,
                       IF report.highValueTargets # <<>>
                       THEN report.highValueTargets[1].main_keyword ELSE "")
            /\ StepFor(plan, "Content", report.rawData,
                       IF report.rawData # <<>> THEN report.rawData[1].theme ELSE "")
            /\ StepFor(plan, "Competitors", report.mainCompetitors,
                       IF report.mainCompetitors # <<>>
                       THEN report.mainCompetitors[1].domain ELSE "")

\* a report of the utils path whose plan has all four steps
C27_Witness ==
    /\ Reported
    /\ impl = "utils"
    /\ Len(report.actionPlan) = 4
    /\ report.actionPlan[1].ref = report.quickWins[1].main_keyword
    /\ report.actionPlan[4].ref = report.mainCompetitors[1].domain

\* C28: a record whose list of ranking pages is empty after the ingestion has
\* the difficulty estimated from its metrics, also when a task with organic
\* results was received for it and none of them gave a usable domain.
C28_EmptyPagesMetricsDifficulty ==
    \A i \in 1..Len(keywordDB) :
        keywordDB[i].serp_urls = <<>> =>
            keywordDB[i].keyword_difficulty = MetricsEstimate(keywordDB[i])

(***************************************************************************)
(* The volume filter ahead of the clustering                               *)
(***************************************************************************)
\* the members of all clusters of the report, cluster after cluster
ReportMembers == Flatten([j \in 1..Len(ClusterList) |-> ClusterList[j].keywords])

ReportTotalKeywords ==
    IF impl = "utils" THEN report.summaryCards.totalKeywords
    ELSE report.analysis_summary.total_keywords_analyzed

ReportTotalVolume ==
    IF impl = "utils" THEN report.summaryCards.totalVolume
    ELSE report.analysis_summary.total_monthly_search_volume

LowVolume(kw) == JsGt(kw.search_volume, N(0)) /\ ~JsGt(kw.search_volume, N(20))

\* C29: every member of every cluster of a report has search_volume > 20; a
\* record of the table with a volume from 1 to 20 is a member of no cluster,
\* and the totals of the clusters and of the report count the members only.
C29_VolumeAboveTwenty ==
    Reported =>
        /\ \A m \in 1..Len(ReportMembers) : JsGt(ReportMembers[m].search_volume, N(20))
        /\ \A i \in 1..Len(keywordDB) :
              LowVolume(keywordDB[i]) =>
                  \A m \in 1..Len(ReportMembers) :
                      ReportMembers[m].keyword # keywordDB[i].keyword
        /\ \A j \in 1..Len(ClusterList) :
              ClusterList[j].total_search_volume =
                  Sum([m \in 1..Len(ClusterList[j].keywords) |->
                          ClusterList[j].keywords[m].search_volume])
        /\ ReportTotalKeywords = N(Len(ReportMembers))
        /\ ReportTotalVolume =
               Sum([m \in 1..Len(ReportMembers) |-> ReportMembers[m].search_volume])

\* a report with a cluster, made from a table that holds a record with a
\* volume from 1 to 20
C29_Witness ==
    /\ Reported
    /\ ClusterList # <<>>
    /\ \E i \in 1..Len(keywordDB) : LowVolume(keywordDB[i])

(***************************************************************************)
(* The collection of ranking pages                                         *)
(***************************************************************************)
\* the step is a request of getSerpData that met response
RequestMet(response) == RequestSerp(response) \/ KRT_RequestSerp(response)

\* a collected task names the keyword
HasTask(keyword) == \E t \in 1..Len(serpResults) : serpResults[t].keyword = keyword

\* the keywords of the collected tasks follow the order of the requests
RECURSIVE InOrderOf(_, _)
InOrderOf(tasks, list) ==
    IF tasks = <<>> THEN TRUE
    ELSE IF list = <<>> THEN FALSE
    ELSE IF Head(tasks).keyword = Head(list) THEN InOrderOf(Tail(tasks), Tail(list))
    ELSE InOrderOf(tasks, Tail(list))

\* the run has a step to take: a request or the return of getSerpData, an
\* iteration of serpResults.forEach, the call of createClusters, an iteration
\* or the return of createClusters, or generateReport
HasStep ==
    \/ ENABLED (\E response \in ResponsePool : RequestMet(response))
    \/ ENABLED ReturnSerpData
    \/ MetricsDone /\ taskIdx < Len(serpResults)
    \/ MetricsDone /\ taskIdx = Len(serpResults)
    \/ pc = "cluster"
    \/ pc = "clustered"

\* C30: a request of the collection that fails (response not ok) or errors
\* (exception) never aborts the run: the keywords are requested one after
\* the other in the order of the list, whatever the requests before met; the
\* collected result gains nothing from a failed or erroring request and holds
\* only tasks of answered requests, in the order of the requests; the run
\* never stops short of its report; and in the report every record whose
\* keyword has no collected task has the difficulty estimated from its
\* metrics and no ranking page.
C30_FailedRequestNeverAborts ==
    /\ [](/\ requested \o toRequest = seedKeywords
          /\ pc # "request" => requested = seedKeywords
          /\ InOrderOf(serpResults, requested)
          /\ Reported \/ HasStep
          /\ Reported =>
                \A i \in 1..Len(keywordDB) :
                    ~HasTask(keywordDB[i].keyword) =>
                        /\ keywordDB[i].serp_urls = <<>>
                        /\ keywordDB[i].keyword_difficulty = MetricsEstimate(keywordDB[i]))
    /\ [][\A response \in ResponsePool :
             RequestMet(response) =>
                 /\ toRequest' = Tail(toRequest)
                 /\ response.kind # "json" => serpResults' = serpResults
                 /\ Len(serpResults') >= Len(serpResults)
                 /\ SubSeq(serpResults', 1, Len(serpResults)) = serpResults
                 /\ \A t \in (Len(serpResults) + 1)..Len(serpResults') :
                       \E j \in 1..Len(response.tasks) : response.tasks[j] = serpResults'[t]]_vars

\* a report of a run whose first request failed and whose second request was
\* answered: the record of the first keyword has no ranking page, the record
\* of the second keyword has ranking pages
C30_Witness ==
    /\ Reported
    /\ requested = seedKeywords
    /\ ~HasTask(seedKeywords[1])
    /\ HasTask(seedKeywords[2])
    /\ \E i \in 1..Len(keywordDB) :
          /\ keywordDB[i].keyword = seedKeywords[1]
          /\ keywordDB[i].serp_urls = <<>>
    /\ \E i \in 1..Len(keywordDB) :
          /\ keywordDB[i].keyword = seedKeywords[2]
          /\ keywordDB[i].serp_urls # <<>>

====
